---- MODULE Spec2Model ----
(***************************************************************************)
(* Smart Workspace Automator: the classification engine (classifier.py),   *)
(* the organizer (organizer.py), the reporter (reporter.py) and the run    *)
(* loop of the controller (main.py), over a small file system.             *)
(*                                                                         *)
(* Text is a sequence of one-character strings, so that lower(),           *)
(* startswith(), `in`, replace() and Path.stem/.suffix are computed on the *)
(* characters.  The fixed text of an f-string is kept as one element.      *)
(* Confidences are in hundredths: 1.0 is 100, 0.85 is 85.                  *)
(***************************************************************************)
EXTENDS Integers, Sequences, FiniteSets, TLC

VARIABLES
    config_data,     \* the parsed JSON of the configuration file
    config,          \* the Config object shared by all components
    engine,          \* the ClassificationEngine object built from config
    metadata,        \* SpecClassify: the FileMetadata being classified
    rule_result,     \* result of RuleBasedClassifier.classify
    ai_result,       \* result of AIClassifier.classify
    final_result,    \* result of ClassificationEngine.classify / _merge_classifications
    file_list,       \* run: the list returned by scanner.scan
    files_processed, \* run: loop counter of the for loop
    pc,              \* run: position inside the loop body
    classification,  \* run: local variable classification
    operation,       \* run: local variable operation
    operations,      \* ReportGenerator.operations
    summary,         \* the lines of the summary report, once it is generated
    destination,     \* organize: local variable destination after handle_duplicate
    files,           \* the file system: path -> [content, mtime] of existing files
    files_at_start,  \* the file system as it was when run was called
    faults           \* number of I/O failures the environment has produced so far

vars == << config_data, config, engine, metadata, rule_result, ai_result, final_result, file_list,
           files_processed, pc, classification, operation, operations, summary,
           destination, files, files_at_start, faults >>

classifyVars == << metadata, rule_result, ai_result, final_result >>
runVars == << file_list, files_processed, pc, classification, operation,
              operations, summary, destination, files, files_at_start, faults >>

-----------------------------------------------------------------------------
(* Text primitives (Python str)                                            *)

Uppers == << "A", "B", "C", "D", "E", "F", "G", "H", "I", "J", "K", "L", "M",
             "N", "O", "P", "Q", "R", "S", "T", "U", "V", "W", "X", "Y", "Z" >>
Lowers == << "a", "b", "c", "d", "e", "f", "g", "h", "i", "j", "k", "l", "m",
             "n", "o", "p", "q", "r", "s", "t", "u", "v", "w", "x", "y", "z" >>
Digits == << "0", "1", "2", "3", "4", "5", "6", "7", "8", "9" >>

LowerChar(c) ==
    LET up == { i \in DOMAIN Uppers : Uppers[i] = c }
    IN IF up = {} THEN c ELSE Lowers[CHOOSE i \in up : TRUE]

\* str.lower()
lower(s) == [i \in 1..Len(s) |-> LowerChar(s[i])]

\* str.startswith(p)
StartsWith(s, p) == Len(s) >= Len(p) /\ SubSeq(s, 1, Len(p)) = p

\* k in s (substring test)
Contains(s, k) ==
    \E i \in 1..(Len(s) - Len(k) + 1) : SubSeq(s, i, i + Len(k) - 1) = k

\* x in list
InList(list, x) == \E i \in DOMAIN list : list[i] = x

\* str(n) for n >= 0
RECURSIVE Str(_)
Str(n) == IF n < 10 THEN << Digits[n + 1] >>
          ELSE Str(n \div 10) \o << Digits[(n % 10) + 1] >>

\* f"{c:.2f}" for a confidence c given in hundredths
Fmt2(c) == Str(c \div 100) \o << "." >>
           \o << Digits[((c % 100) \div 10) + 1], Digits[(c % 10) + 1] >>

\* s.replace(old, new), all non-overlapping occurrences from the left
RECURSIVE Replace(_, _, _)
Replace(s, old, new) ==
    IF Len(s) = 0 THEN << >>
    ELSE IF StartsWith(s, old)
         THEN new \o Replace(SubSeq(s, Len(old) + 1, Len(s)), old, new)
         ELSE << s[1] >> \o Replace(SubSeq(s, 2, Len(s)), old, new)

\* a text is empty when it has no character (fixed f-string text is never "")
IsEmptyText(t) == \A i \in DOMAIN t : t[i] = ""

-----------------------------------------------------------------------------
(* classifier.py                                                           *)

DefaultThreshold == 70
ExtensionConfidence == 100
MimeConfidence == 80
UnknownConfidence == 30
KeywordConfidence == 85
NoKeywordConfidence == 40

NoResult == [category |-> "", confidence |-> 0 - 1, method |-> "none",
             explanation |-> << >>]

ImagePrefix == <<"i", "m", "a", "g", "e", "/">>
VideoPrefix == <<"v", "i", "d", "e", "o", "/">>
TextPrefix == <<"t", "e", "x", "t", "/">>

DocumentMimes ==
    << <<"a", "p", "p", "l", "i", "c", "a", "t", "i", "o", "n", "/", "p", "d", "f">>,
       <<"a", "p", "p", "l", "i", "c", "a", "t", "i", "o", "n", "/", "m", "s", "w", "o", "r", "d">>,
       <<"a", "p", "p", "l", "i", "c", "a", "t", "i", "o", "n", "/", "v", "n", "d", ".", "o", "p", "e", "n", "x", "m", "l", "f", "o", "r", "m", "a", "t", "s", "-", "o", "f", "f", "i", "c", "e", "d", "o", "c", "u", "m", "e", "n", "t", ".", "w", "o", "r", "d", "p", "r", "o", "c", "e", "s", "s", "i", "n", "g", "m", "l", ".", "d", "o", "c", "u", "m", "e", "n", "t">> >>

ArchiveMimes ==
    << <<"a", "p", "p", "l", "i", "c", "a", "t", "i", "o", "n", "/", "z", "i", "p">>,
       <<"a", "p", "p", "l", "i", "c", "a", "t", "i", "o", "n", "/", "x", "-", "r", "a", "r", "-", "c", "o", "m", "p", "r", "e", "s", "s", "e", "d">>,
       <<"a", "p", "p", "l", "i", "c", "a", "t", "i", "o", "n", "/", "x", "-", "7", "z", "-", "c", "o", "m", "p", "r", "e", "s", "s", "e", "d">>,
       <<"a", "p", "p", "l", "i", "c", "a", "t", "i", "o", "n", "/", "x", "-", "t", "a", "r">>,
       <<"a", "p", "p", "l", "i", "c", "a", "t", "i", "o", "n", "/", "g", "z", "i", "p">>,
       <<"a", "p", "p", "l", "i", "c", "a", "t", "i", "o", "n", "/", "x", "-", "b", "z", "i", "p", "2">> >>

study_keywords ==
    << <<"a", "s", "s", "i", "g", "n", "m", "e", "n", "t">>,
       <<"h", "o", "m", "e", "w", "o", "r", "k">>,
       <<"l", "e", "c", "t", "u", "r", "e">>,
       <<"n", "o", "t", "e", "s">>,
       <<"s", "t", "u", "d", "y">>,
       <<"e", "x", "a", "m">>,
       <<"q", "u", "i", "z">>,
       <<"c", "o", "u", "r", "s", "e">>,
       <<"c", "l", "a", "s", "s">>,
       <<"t", "u", "t", "o", "r", "i", "a", "l">>,
       <<"l", "a", "b">>,
       <<"p", "r", "o", "j", "e", "c", "t">>,
       <<"t", "h", "e", "s", "i", "s">>,
       <<"d", "i", "s", "s", "e", "r", "t", "a", "t", "i", "o", "n">>,
       <<"r", "e", "s", "e", "a", "r", "c", "h">> >>

work_keywords ==
    << <<"i", "n", "v", "o", "i", "c", "e">>,
       <<"c", "o", "n", "t", "r", "a", "c", "t">>,
       <<"m", "e", "e", "t", "i", "n", "g">>,
       <<"r", "e", "p", "o", "r", "t">>,
       <<"p", "r", "o", "p", "o", "s", "a", "l">>,
       <<"p", "r", "e", "s", "e", "n", "t", "a", "t", "i", "o", "n">>,
       <<"b", "u", "d", "g", "e", "t">>,
       <<"f", "i", "n", "a", "n", "c", "i", "a", "l">>,
       <<"b", "u", "s", "i", "n", "e", "s", "s">>,
       <<"c", "l", "i", "e", "n", "t">>,
       <<"m", "e", "m", "o">>,
       <<"a", "g", "e", "n", "d", "a">>,
       <<"m", "i", "n", "u", "t", "e", "s">>,
       <<"q", "u", "a", "r", "t", "e", "r", "l", "y">>,
       <<"a", "n", "n", "u", "a", "l">> >>

\* Config.get_extension_mappings: a later category overwrites an earlier one
ExtensionKeys(categories) ==
    UNION { { lower(categories[i].exts[j]) : j \in DOMAIN categories[i].exts } :
            i \in DOMAIN categories }

LastCategoryOf(categories, e) ==
    LET holders == { i \in DOMAIN categories :
                       \E j \in DOMAIN categories[i].exts :
                           lower(categories[i].exts[j]) = e }
    IN CHOOSE i \in holders : \A k \in holders : k <= i

get_extension_mappings(c) ==
    [e \in ExtensionKeys(c.categories) |->
        c.categories[LastCategoryOf(c.categories, e)].name]

\* MIME rules that know the prefixes only
classify_by_mime_PrefixOnly(mime_type) ==
    IF StartsWith(mime_type, ImagePrefix) THEN "Images"
    ELSE IF StartsWith(mime_type, VideoPrefix) THEN "Videos"
    ELSE IF StartsWith(mime_type, TextPrefix) THEN "Documents"
    ELSE "None"

\* RuleBasedClassifier._classify_by_mime; "None" stands for Python's None
classify_by_mime(mime_type) ==
    IF StartsWith(mime_type, ImagePrefix) THEN "Images"
    ELSE IF StartsWith(mime_type, VideoPrefix) THEN "Videos"
    ELSE IF StartsWith(mime_type, TextPrefix) THEN "Documents"
    ELSE IF InList(DocumentMimes, mime_type) THEN "Documents"
    ELSE IF InList(ArchiveMimes, mime_type) THEN "Archives"
    ELSE "None"

\* the extension test without case normalisation
ExtensionMatches_CaseSensitive(extension_mappings, m) ==
    Len(m.extension) > 0 /\ m.extension \in DOMAIN extension_mappings

\* the test of classifier.py line 43
ExtensionMatches(extension_mappings, m) ==
    Len(m.extension) > 0 /\ lower(m.extension) \in DOMAIN extension_mappings

\* a rule classifier that rates a MIME match as low as an unknown file type
RuleBasedClassifier_classify_UnsureMime(extension_mappings, m) ==
    IF ExtensionMatches(extension_mappings, m)
    THEN LET category == extension_mappings[lower(m.extension)]
         IN [category |-> category, confidence |-> ExtensionConfidence,
             method |-> "rule-based",
             explanation |-> << "File extension '." >> \o m.extension
                             \o << "' maps to ", category >>]
    ELSE LET mime_category == classify_by_mime(m.mime_type)
         IN IF mime_category # "None"
            THEN [category |-> mime_category, confidence |-> UnknownConfidence,
                  method |-> "rule-based",
                  explanation |-> << "MIME type '" >> \o m.mime_type
                                  \o << "' indicates ", mime_category >>]
            ELSE [category |-> "Miscellaneous", confidence |-> UnknownConfidence,
                  method |-> "rule-based",
                  explanation |-> << "Unknown file type" >>]

\* RuleBasedClassifier.classify
RuleBasedClassifier_classify(extension_mappings, m) ==
    IF ExtensionMatches(extension_mappings, m)
    THEN LET category == extension_mappings[lower(m.extension)]
         IN [category |-> category, confidence |-> ExtensionConfidence,
             method |-> "rule-based",
             explanation |-> << "File extension '." >> \o m.extension
                             \o << "' maps to ", category >>]
    ELSE LET mime_category == classify_by_mime(m.mime_type)
         IN IF mime_category # "None"
            THEN [category |-> mime_category, confidence |-> MimeConfidence,
                  method |-> "rule-based",
                  explanation |-> << "MIME type '" >> \o m.mime_type
                                  \o << "' indicates ", mime_category >>]
            ELSE [category |-> "Miscellaneous", confidence |-> UnknownConfidence,
                  method |-> "rule-based",
                  explanation |-> << "Unknown file type" >>]

\* index of the first keyword of the list found in s, 0 when there is none
FirstKeyword(keywords, s) ==
    LET hits == { i \in DOMAIN keywords : Contains(s, keywords[i]) }
    IN IF hits = {} THEN 0 ELSE CHOOSE i \in hits : \A k \in hits : i <= k

\* a heuristic classifier that looks for work keywords first
AIClassifier_classify_WorkFirst(m) ==
    LET filename_lower == lower(m.name)
        si == FirstKeyword(study_keywords, filename_lower)
        wi == FirstKeyword(work_keywords, filename_lower)
    IN IF wi # 0
       THEN [category |-> "Work", confidence |-> KeywordConfidence, method |-> "ai",
             explanation |-> << "Filename contains '" >> \o work_keywords[wi]
                             \o << "' indicating work-related content" >>]
       ELSE IF si # 0
       THEN [category |-> "Study", confidence |-> KeywordConfidence, method |-> "ai",
             explanation |-> << "Filename contains '" >> \o study_keywords[si]
                             \o << "' indicating academic work" >>]
       ELSE [category |-> "Miscellaneous", confidence |-> NoKeywordConfidence,
             method |-> "ai",
             explanation |-> << "No clear purpose indicators found in filename" >>]

\* AIClassifier.classify
AIClassifier_classify(m) ==
    LET filename_lower == lower(m.name)
        si == FirstKeyword(study_keywords, filename_lower)
        wi == FirstKeyword(work_keywords, filename_lower)
    IN IF si # 0
       THEN [category |-> "Study", confidence |-> KeywordConfidence, method |-> "ai",
             explanation |-> << "Filename contains '" >> \o study_keywords[si]
                             \o << "' indicating academic work" >>]
       ELSE IF wi # 0
       THEN [category |-> "Work", confidence |-> KeywordConfidence, method |-> "ai",
             explanation |-> << "Filename contains '" >> \o work_keywords[wi]
                             \o << "' indicating work-related content" >>]
       ELSE [category |-> "Miscellaneous", confidence |-> NoKeywordConfidence,
             method |-> "ai",
             explanation |-> << "No clear purpose indicators found in filename" >>]

\* the ambiguity test against the default threshold instead of the configured one
is_ambiguous_DefaultThreshold(rule, threshold) == rule.confidence < DefaultThreshold

\* an ambiguity test that takes in a confidence equal to the threshold
is_ambiguous_Inclusive(rule, threshold) == rule.confidence <= threshold

\* AIClassifier.is_ambiguous
is_ambiguous(rule, threshold) == rule.confidence < threshold

\* the merge comparison with the tie going to the AI result
AIWins_OnTie(rule, ai) == ai.confidence >= rule.confidence

\* the comparison of ClassificationEngine._merge_classifications
AIWins(rule, ai) == ai.confidence > rule.confidence

\* a merge that always keeps the rule result
merge_classifications_RuleOnly(rule, ai) ==
    [category |-> rule.category, confidence |-> rule.confidence, method |-> "merged",
     explanation |-> << "Rule-based classification (confidence " >>
                     \o Fmt2(rule.confidence) \o << "): " >> \o rule.explanation]

\* ClassificationEngine._merge_classifications
merge_classifications(rule, ai) ==
    IF AIWins(rule, ai)
    THEN [category |-> ai.category, confidence |-> ai.confidence, method |-> "merged",
          explanation |-> << "AI classification (confidence " >> \o Fmt2(ai.confidence)
                          \o << "): " >> \o ai.explanation]
    ELSE [category |-> rule.category, confidence |-> rule.confidence, method |-> "merged",
          explanation |-> << "Rule-based classification (confidence " >>
                          \o Fmt2(rule.confidence) \o << "): " >> \o rule.explanation]

\* ClassificationEngine.__init__
ClassificationEngine_init(c) ==
    [extension_mappings |-> get_extension_mappings(c),
     ambiguity_threshold |-> c.ambiguity_threshold,
     ai_enabled |-> c.ai_classifier_enabled]

\* ClassificationEngine.classify
ClassificationEngine_classify(eng, m) ==
    LET rule == RuleBasedClassifier_classify(eng.extension_mappings, m)
    IN IF eng.ai_enabled /\ is_ambiguous(rule, eng.ambiguity_threshold)
       THEN merge_classifications(rule, AIClassifier_classify(m))
       ELSE rule

-----------------------------------------------------------------------------
(* config.py                                                               *)

\* a validation that accepts any duplicate handling strategy
validate_AnyStrategy(c) ==
    (IF Len(c.categories) = 0
        THEN {"Configuration must include at least one category"} ELSE {})
    \cup (IF ~c.system_file_patterns.list
        THEN {"System file patterns must be a list"} ELSE {})
    \cup (IF ~(0 <= c.ambiguity_threshold /\ c.ambiguity_threshold <= 100)
        THEN {"Ambiguity threshold must be between 0.0 and 1.0"} ELSE {})
    \cup (IF c.ai_classifier_enabled /\ c.ai_prompt_template = ""
        THEN {"AI prompt template is required when AI classifier is enabled"} ELSE {})
    \cup (IF c.organized_folder = ""
        THEN {"Organized folder name cannot be empty"} ELSE {})
    \cup (IF c.logs_folder = ""
        THEN {"Logs folder name cannot be empty"} ELSE {})

\* Config.validate: the set of error messages
validate(c) ==
    (IF Len(c.categories) = 0
        THEN {"Configuration must include at least one category"} ELSE {})
    \cup (IF ~c.system_file_patterns.list
        THEN {"System file patterns must be a list"} ELSE {})
    \cup (IF ~(0 <= c.ambiguity_threshold /\ c.ambiguity_threshold <= 100)
        THEN {"Ambiguity threshold must be between 0.0 and 1.0"} ELSE {})
    \cup (IF c.ai_classifier_enabled /\ c.ai_prompt_template = ""
        THEN {"AI prompt template is required when AI classifier is enabled"} ELSE {})
    \cup (IF c.organized_folder = ""
        THEN {"Organized folder name cannot be empty"} ELSE {})
    \cup (IF c.logs_folder = ""
        THEN {"Logs folder name cannot be empty"} ELSE {})
    \cup (IF c.duplicate_handling_strategy \notin {"rename", "skip", "overwrite"}
        THEN {"Duplicate handling strategy must be one of: rename, skip, overwrite"}
        ELSE {})

DefaultCategories ==
    << [name |-> "Documents", exts |-> << <<"p", "d", "f">>, <<"d", "o", "c">>, <<"d", "o", "c", "x">>, <<"t", "x", "t">>, <<"r", "t", "f">>, <<"o", "d", "t">> >>],
       [name |-> "Images", exts |-> << <<"j", "p", "g">>, <<"j", "p", "e", "g">>, <<"p", "n", "g">>, <<"g", "i", "f">>, <<"b", "m", "p">>, <<"s", "v", "g">>, <<"w", "e", "b", "p">> >>],
       [name |-> "Videos", exts |-> << <<"m", "p", "4">>, <<"a", "v", "i">>, <<"m", "k", "v">>, <<"m", "o", "v">>, <<"w", "m", "v">>, <<"f", "l", "v">>, <<"w", "e", "b", "m">> >>],
       [name |-> "Archives", exts |-> << <<"z", "i", "p">>, <<"r", "a", "r">>, <<"7", "z">>, <<"t", "a", "r">>, <<"g", "z">>, <<"b", "z", "2">> >>],
       [name |-> "Code", exts |-> << <<"p", "y">>, <<"j", "s">>, <<"h", "t", "m", "l">>, <<"c", "s", "s">>, <<"j", "a", "v", "a">>, <<"c", "p", "p">>, <<"c">>, <<"h">> >>],
       [name |-> "Installers", exts |-> << <<"e", "x", "e">>, <<"m", "s", "i">>, <<"d", "m", "g">>, <<"p", "k", "g">>, <<"d", "e", "b">>, <<"r", "p", "m">> >>],
       [name |-> "Work", exts |-> << >>],
       [name |-> "Study", exts |-> << >>],
       [name |-> "Miscellaneous", exts |-> << >>] >>

DefaultSuffixPattern == <<"_", "{", "n", "}">>

\* Config.get_default_config
get_default_config ==
    [downloads_folder |-> << "downloads" >>,
     organized_folder |-> "organized",
     logs_folder |-> "logs",
     categories |-> DefaultCategories,
     system_file_patterns |->
        [list |-> TRUE,
         items |-> << <<".", "t", "m", "p">>, <<".", "p", "a", "r", "t">>,
                      <<".", "D", "S", "_", "S", "t", "o", "r", "e">>,
                      <<".", "c", "r", "d", "o", "w", "n", "l", "o", "a", "d">> >>],
     ai_classifier_enabled |-> TRUE,
     ai_prompt_template |-> "Given the filename '{filename}', predict its purpose",
     ambiguity_threshold |-> DefaultThreshold,
     duplicate_handling_strategy |-> "rename",
     duplicate_suffix_pattern |-> DefaultSuffixPattern]

(* Category tables a configuration file may hold besides the default one:  *)
(* upper-case and repeated extensions and an extension "" (a file without  *)
(* extension); a category whose name is "".                                *)
MixedCategories ==
    << [name |-> "Papers", exts |-> << <<"P", "D", "F">>, <<"t", "x", "t">> >>],
       [name |-> "Plain", exts |-> << <<"t", "x", "t">>, << >> >>] >>

UnnamedCategories ==
    << [name |-> "", exts |-> << <<"x", "y", "z">> >>] >>

CategoryTables == { DefaultCategories, MixedCategories, UnnamedCategories, << >> }

\* thresholds a configuration file may hold (hundredths); 150 is out of range
Thresholds == { 0, 30, 50, 80, 100, 150 }

\* Config.load_from_file: the configurations that pass validate
ConfigFiles ==
    { [get_default_config EXCEPT !.categories = t, !.ambiguity_threshold = th,
                                 !.ai_classifier_enabled = en] :
        t \in CategoryTables, th \in Thresholds, en \in BOOLEAN }

load_from_file == { c \in ConfigFiles : validate(c) = {} }

(* The parsed JSON object of a configuration file.  Every key may be        *)
(* missing: a field is [present, value], and dict.get(key, default) reads   *)
(* it.                                                                      *)
Absent(value) == [present |-> FALSE, value |-> value]
Present(value) == [present |-> TRUE, value |-> value]
Get(field, default) == IF field.present THEN field.value ELSE default

\* a system_file_patterns value that is not a list (a string, a number)
NotAList == [list |-> FALSE, items |-> << >>]

\* config.py lines 63-86: the Config object load_from_file builds
ConfigOf(data) ==
    [downloads_folder |-> << "downloads" >>,
     organized_folder |-> Get(data.organized_folder, "organized"),
     logs_folder |-> Get(data.logs_folder, "logs"),
     categories |-> Get(data.categories, << >>),
     system_file_patterns |-> Get(data.system_file_patterns,
                                  [list |-> TRUE, items |-> << >>]),
     ai_classifier_enabled |-> Get(data.enabled, TRUE),
     ai_prompt_template |-> Get(data.prompt_template, ""),
     ambiguity_threshold |-> Get(data.ambiguity_threshold, DefaultThreshold),
     duplicate_handling_strategy |-> Get(data.strategy, "rename"),
     duplicate_suffix_pattern |-> Get(data.suffix_pattern, DefaultSuffixPattern)]

\* the JSON object {}: no configuration file is being loaded
NoConfigData ==
    [organized_folder |-> Absent(""), logs_folder |-> Absent(""),
     categories |-> Absent(<< >>), system_file_patterns |-> Absent(NotAList),
     enabled |-> Absent(TRUE), prompt_template |-> Absent(""),
     ambiguity_threshold |-> Absent(0), strategy |-> Absent(""),
     suffix_pattern |-> Absent(<< >>)]

\* the configuration files tried: keys missing, empty and out of range
ConfigDataFiles ==
    [organized_folder : { Absent(""), Present("organized"), Present("") },
     logs_folder : { Present("logs"), Present("") },
     categories : { Absent(<< >>), Present(DefaultCategories), Present(<< >>) },
     system_file_patterns : { Absent(NotAList),
                              Present(get_default_config.system_file_patterns),
                              Present(NotAList) },
     enabled : { Absent(TRUE), Present(TRUE), Present(FALSE) },
     prompt_template : { Absent(""), Present(""),
                         Present(get_default_config.ai_prompt_template) },
     ambiguity_threshold : { Absent(0), Present(0), Present(100), Present(101),
                             Present(0 - 1) },
     strategy : { Absent(""), Present("rename"), Present("skip"),
                  Present("overwrite"), Present("replace") },
     suffix_pattern : { Absent(<< >>) }]

-----------------------------------------------------------------------------
(* FileMetadata records (scanner.py), as the classifiers receive them      *)

JoinName(stem, extension) ==
    IF Len(extension) = 0 THEN stem ELSE stem \o << "." >> \o extension

FileMetadata(parent, stem, extension, mime_type) ==
    [path |-> [parent |-> parent, name |-> JoinName(stem, extension)],
     name |-> JoinName(stem, extension),
     extension |-> extension,
     mime_type |-> mime_type]

NoMetadata == FileMetadata(<< >>, << >>, << >>, << >>)

Stems ==
    { <<"r", "e", "p", "o", "r", "t">>,
      <<"c", "l", "a", "s", "s", "r", "o", "o", "m">>,
      <<"I", "n", "v", "o", "i", "c", "e", "_", "N", "o", "t", "e", "s">>,
      <<"R", "E", "A", "D", "M", "E">>,
      <<"u", "n", "k", "n", "o", "w", "n">> }

Extensions ==
    { << >>, <<"p", "d", "f">>, <<"P", "D", "F">>, <<"x", "y", "z">>, <<"t", "x", "t">> }

MimeTypes ==
    { <<"i", "m", "a", "g", "e", "/", "p", "n", "g">>,
      <<"v", "i", "d", "e", "o", "/", "m", "p", "4">>,
      <<"t", "e", "x", "t", "/", "p", "l", "a", "i", "n">>,
      <<"a", "p", "p", "l", "i", "c", "a", "t", "i", "o", "n", "/", "p", "d", "f">>,
      <<"a", "p", "p", "l", "i", "c", "a", "t", "i", "o", "n", "/", "z", "i", "p">>,
      <<"a", "p", "p", "l", "i", "c", "a", "t", "i", "o", "n", "/", "m", "s", "w", "o", "r", "d">>,
      <<"a", "p", "p", "l", "i", "c", "a", "t", "i", "o", "n", "/", "x", "-", "t", "a", "r">>,
      <<"a", "p", "p", "l", "i", "c", "a", "t", "i", "o", "n", "/", "o", "c", "t", "e", "t", "-", "s", "t", "r", "e", "a", "m">> }

ClassifyRecords ==
    { FileMetadata(<< "test" >>, s, e, mt) : s \in Stems, e \in Extensions, mt \in MimeTypes }

-----------------------------------------------------------------------------
(* SpecClassify: the three classifiers applied to one FileMetadata         *)

NoOperation ==
    [source_path |-> NoMetadata.path, destination_path |-> NoMetadata.path,
     category |-> "", classification |-> NoResult, success |-> FALSE,
     error_message |-> "None"]

RunIdle ==
    /\ file_list = << >>
    /\ files_processed = 0
    /\ pc = "idle"
    /\ classification = NoResult
    /\ operation = NoOperation
    /\ operations = << >>
    /\ summary = << >>
    /\ destination = NoMetadata.path
    /\ files = << >>
    /\ files_at_start = << >>
    /\ faults = 0

InitClassify ==
    /\ config_data = NoConfigData
    /\ config \in load_from_file
    /\ engine = ClassificationEngine_init(config)
    /\ metadata \in ClassifyRecords
    /\ rule_result = NoResult
    /\ ai_result = NoResult
    /\ final_result = NoResult
    /\ RunIdle

ClassifyRule ==
    /\ rule_result.method = "none"
    /\ rule_result' = RuleBasedClassifier_classify(engine.extension_mappings, metadata)
    /\ UNCHANGED << config_data, config, engine, metadata, ai_result, final_result, runVars >>

ClassifyAI ==
    /\ ai_result.method = "none"
    /\ ai_result' = AIClassifier_classify(metadata)
    /\ UNCHANGED << config_data, config, engine, metadata, rule_result, final_result, runVars >>

ClassifyEngine ==
    /\ final_result.method = "none"
    /\ final_result' = ClassificationEngine_classify(engine, metadata)
    /\ UNCHANGED << config_data, config, engine, metadata, rule_result, ai_result, runVars >>

NextClassify == ClassifyRule \/ ClassifyAI \/ ClassifyEngine

SpecClassify == InitClassify /\ [][NextClassify]_vars

-----------------------------------------------------------------------------
(* SpecConfig: main() loads a configuration file                           *)

InitConfig ==
    /\ config_data \in ConfigDataFiles
    /\ config = ConfigOf(NoConfigData)
    /\ engine = ClassificationEngine_init(ConfigOf(NoConfigData))
    /\ metadata = NoMetadata
    /\ rule_result = NoResult
    /\ ai_result = NoResult
    /\ final_result = NoResult
    /\ file_list = << >>
    /\ files_processed = 0
    /\ pc = "load"
    /\ classification = NoResult
    /\ operation = NoOperation
    /\ operations = << >>
    /\ summary = << >>
    /\ destination = NoMetadata.path
    /\ files = << >>
    /\ files_at_start = << >>
    /\ faults = 0

\* Config.load_from_file, called at main.py line 180: it returns the Config
\* or raises ValueError
LoadConfig ==
    /\ pc = "load"
    /\ LET c == ConfigOf(config_data)
       IN IF validate(c) = {}
          THEN config' = c /\ pc' = "loaded"
          ELSE config' = config /\ pc' = "ValueError"
    /\ UNCHANGED << config_data, engine, classifyVars, file_list, files_processed,
                    classification, operation, operations, summary, destination,
                    files, files_at_start, faults >>

\* main.py lines 185-188: the exception is caught and the default
\* configuration is used
UseDefault ==
    /\ pc = "ValueError"
    /\ config' = get_default_config
    /\ pc' = "defaulted"
    /\ UNCHANGED << config_data, engine, classifyVars, file_list, files_processed,
                    classification, operation, operations, summary, destination,
                    files, files_at_start, faults >>

NextConfig == LoadConfig \/ UseDefault

SpecConfig == InitConfig /\ [][NextConfig]_vars

-----------------------------------------------------------------------------
(* SpecMerge: _merge_classifications applied to any two results            *)

MergeCategories == { "Documents", "Study", "Miscellaneous" }
MergeConfidences == { 0, 30, 40, 80, 85, 100 }

MergeInputs(method) ==
    { [category |-> cat, confidence |-> cf, method |-> method,
       explanation |-> << "Test classification" >>] :
        cat \in MergeCategories, cf \in MergeConfidences }

InitMerge ==
    /\ config_data = NoConfigData
    /\ config = get_default_config
    /\ engine = ClassificationEngine_init(config)
    /\ metadata = NoMetadata
    /\ rule_result \in MergeInputs("rule-based")
    /\ ai_result \in MergeInputs("ai")
    /\ final_result = NoResult
    /\ RunIdle

Merge ==
    /\ final_result.method = "none"
    /\ final_result' = merge_classifications(rule_result, ai_result)
    /\ UNCHANGED << config_data, config, engine, metadata, rule_result, ai_result, runVars >>

NextMerge == Merge

SpecMerge == InitMerge /\ [][NextMerge]_vars

-----------------------------------------------------------------------------
(* The file system                                                         *)

FilePath(dir, name) == [parent |-> dir, name |-> name]

\* Path / str: joining "" gives the path itself
PathJoin(dir, s) == IF s = "" THEN dir ELSE Append(dir, s)

Exists(fs, p) == p \in DOMAIN fs

Put(fs, p, v) == [q \in (DOMAIN fs) \cup {p} |-> IF q = p THEN v ELSE fs[q]]

Remove(fs, p) == [q \in (DOMAIN fs) \ {p} |-> fs[q]]

(* Modification times are nanoseconds after a whole second between 2^30 s   *)
(* and 2^31 s of the epoch (2004 to 2038), where floats are 2^-22 s apart:  *)
(* 2^22 float steps in 10^9 ns, that is 8192 steps in 1953125 ns.           *)
FloatSteps == 8192
FloatStepsNanos == 1953125

\* half a float step in nanoseconds, rounded up
HalfStepNanos == 120

\* the time at which the run moves files, later than every file's time
Now == 390

\* os.stat(p).st_mtime: sec + 1e-9 * nsec as a float, given as the number of
\* float steps after the whole second (round to nearest)
st_mtime(nanos) ==
    (2 * nanos * FloatSteps + FloatStepsNanos) \div (2 * FloatStepsNanos)

\* the nanoseconds os.utime makes of a float time (rounding down)
timespec(steps) == (steps * FloatStepsNanos) \div FloatSteps

\* the modification time a relocation that does not keep it leaves behind
StampedNow(f) == [f EXCEPT !.mtime = Now]

\* shutil.move once it has written the destination and removed the source;
\* os.rename replaces an existing destination file
Relocate(fs, source, dest, preserved) ==
    Remove(Put(fs, dest, IF preserved THEN fs[source] ELSE StampedNow(fs[source])),
           source)

\* shutil.move's copy to the destination, the source not yet removed
CopyOnly(fs, source, dest, preserved) ==
    Put(fs, dest, IF preserved THEN fs[source] ELSE StampedNow(fs[source]))

\* os.utime(p, (t, t)) for a float time t
utime(fs, p, t) == [fs EXCEPT ![p].mtime = timespec(t)]

-----------------------------------------------------------------------------
(* organizer.py                                                            *)

NoPath == NoMetadata.path

\* the value standing for a call of handle_duplicate that never returns
NeverReturns == FilePath(<< "<never returns>" >>, << >>)

Placeholder == <<"{", "n", "}">>

LastDot(name) ==
    LET dots == { i \in DOMAIN name : name[i] = "." }
    IN IF dots = {} THEN 0 ELSE CHOOSE i \in dots : \A k \in dots : k <= i

\* pathlib: Path.suffix
Path_suffix(name) ==
    LET i == LastDot(name)
    IN IF 1 < i /\ i < Len(name) THEN SubSeq(name, i, Len(name)) ELSE << >>

\* pathlib: Path.stem
Path_stem(name) == SubSeq(name, 1, Len(name) - Len(Path_suffix(name)))

\* organizer.py lines 74-75: new_name for one value of counter
NewName(name, pattern, counter) ==
    Path_stem(name) \o Replace(pattern, Placeholder, Str(counter)) \o Path_suffix(name)

\* FileOrganizer.__init__: base_path
base_path(c) == PathJoin(c.downloads_folder, c.organized_folder)

\* FileOrganizer.create_category_folder: the path of the category folder
create_category_folder(c, category) == PathJoin(base_path(c), category)

(* The while loop of handle_duplicate.  It returns at the first counter     *)
(* whose path does not exist.  With k existing files, a pattern holding the *)
(* placeholder gives k + 1 different paths for the counters 1..k+1, so one  *)
(* of them is free; when none is, the pattern gives the same existing path  *)
(* for every counter and the loop never ends.                               *)
RECURSIVE DuplicateLoop(_, _, _, _)
DuplicateLoop(existing, pattern, dest, counter) ==
    LET new_path == FilePath(dest.parent, NewName(dest.name, pattern, counter))
    IN IF new_path \notin existing THEN new_path
       ELSE IF counter > Cardinality(existing) THEN NeverReturns
       ELSE DuplicateLoop(existing, pattern, dest, counter + 1)

\* duplicate resolution that hands back the destination without looking
handle_duplicate_NoCheck(existing, pattern, dest) == dest

\* duplicate resolution whose counter starts at 0
handle_duplicate_FromZero(existing, pattern, dest) ==
    IF dest \notin existing THEN dest
    ELSE DuplicateLoop(existing, pattern, dest, 0)

\* duplicate resolution that tries the counter 1 and looks no further
handle_duplicate_Once(existing, pattern, dest) ==
    IF dest \notin existing THEN dest
    ELSE FilePath(dest.parent, NewName(dest.name, pattern, 1))

\* FileOrganizer.handle_duplicate
handle_duplicate(existing, pattern, dest) ==
    IF dest \notin existing THEN dest
    ELSE DuplicateLoop(existing, pattern, dest, 1)

\* I/O failures the environment can produce inside organize:
\*   mkdir   create_category_folder raises (permission, a file in the way)
\*   stat    source.stat() raises PermissionError
\*   move    shutil.move raises before anything is written
\*   unlink  shutil.move has copied the file and fails to remove the source
\*   utime   os.utime raises after the file has been moved
Faults == { "none", "mkdir", "stat", "move", "unlink", "utime" }

\* a failed move that reports no message
MoveFailure_NoMessage(kind) == "None"

\* organizer.py lines 105-112: the message of a failed move
MoveFailure(kind) ==
    IF kind = "missing" THEN "OS error: [Errno 2] No such file or directory"
    ELSE IF kind = "unlink" THEN "OS error: [Errno 30] Read-only file system"
    ELSE "Permission denied: [Errno 13] Permission denied"

\* a move that does not put the modification time back
move_file_safely_NoRestore(fs, source, dest, fault, preserved) ==
    IF ~Exists(fs, source)
    THEN [success |-> FALSE, error_message |-> MoveFailure("missing"), files |-> fs]
    ELSE IF fault \in { "stat", "move" }
    THEN [success |-> FALSE, error_message |-> MoveFailure(fault), files |-> fs]
    ELSE IF fault = "unlink"
    THEN [success |-> FALSE, error_message |-> MoveFailure(fault),
          files |-> CopyOnly(fs, source, dest, preserved)]
    ELSE IF fault = "utime"
    THEN [success |-> FALSE, error_message |-> MoveFailure(fault),
          files |-> Relocate(fs, source, dest, preserved)]
    ELSE [success |-> TRUE, error_message |-> "None",
          files |-> Relocate(fs, source, dest, preserved)]

\* FileOrganizer.move_file_safely
move_file_safely(fs, source, dest, fault, preserved) ==
    IF ~Exists(fs, source)
    THEN [success |-> FALSE, error_message |-> MoveFailure("missing"), files |-> fs]
    ELSE IF fault \in { "stat", "move" }
    THEN [success |-> FALSE, error_message |-> MoveFailure(fault), files |-> fs]
    ELSE IF fault = "unlink"
    THEN [success |-> FALSE, error_message |-> MoveFailure(fault),
          files |-> CopyOnly(fs, source, dest, preserved)]
    ELSE IF fault = "utime"
    THEN [success |-> FALSE, error_message |-> MoveFailure(fault),
          files |-> Relocate(fs, source, dest, preserved)]
    ELSE [success |-> TRUE, error_message |-> "None",
          files |-> utime(Relocate(fs, source, dest, preserved), dest,
                          st_mtime(fs[source].mtime))]

\* the dataclass FileOperation (the timestamp is left out)
FileOperation(source_path, destination_path, category, cls, success, error_message) ==
    [source_path |-> source_path, destination_path |-> destination_path,
     category |-> category, classification |-> cls, success |-> success,
     error_message |-> error_message]

\* organize without its outer try/except: a failing mkdir reaches the caller
organize_Uncaught(fs, c, m, cls, fault, preserved) ==
    IF fault = "mkdir"
    THEN [outcome |-> "raised", operation |-> NoOperation, destination |-> NoPath,
          files |-> fs]
    ELSE LET dest == handle_duplicate(DOMAIN fs, c.duplicate_suffix_pattern,
                        FilePath(create_category_folder(c, cls.category), m.name))
             moved == move_file_safely(fs, m.path, dest, fault, preserved)
         IN IF dest = NeverReturns
            THEN [outcome |-> "hung", operation |-> NoOperation,
                  destination |-> NoPath, files |-> fs]
            ELSE [outcome |-> "returned",
                  operation |-> FileOperation(m.path, dest, cls.category, cls,
                                              moved.success, moved.error_message),
                  destination |-> dest, files |-> moved.files]

\* an organize that follows duplicate_handling_strategy: skip leaves the file
\* where it is, overwrite moves it over the existing destination
organize_ByStrategy(fs, c, m, cls, fault, preserved) ==
    LET natural == FilePath(create_category_folder(c, cls.category), m.name)
    IN IF fault = "mkdir"
       THEN [outcome |-> "returned",
             operation |-> FileOperation(m.path, m.path, cls.category, cls, FALSE,
                                         "Organization failed: cannot create the folder"),
             destination |-> NoPath, files |-> fs]
       ELSE IF natural \in DOMAIN fs /\ c.duplicate_handling_strategy = "skip"
       THEN [outcome |-> "returned",
             operation |-> FileOperation(m.path, m.path, cls.category, cls, FALSE,
                                         "Skipped: the destination exists"),
             destination |-> natural, files |-> fs]
       ELSE LET dest == IF c.duplicate_handling_strategy = "overwrite" THEN natural
                        ELSE handle_duplicate(DOMAIN fs, c.duplicate_suffix_pattern,
                                              natural)
                moved == move_file_safely(fs, m.path, dest, fault, preserved)
            IN IF dest = NeverReturns
               THEN [outcome |-> "hung", operation |-> NoOperation,
                     destination |-> NoPath, files |-> fs]
               ELSE [outcome |-> "returned",
                     operation |-> FileOperation(m.path, dest, cls.category, cls,
                                                 moved.success, moved.error_message),
                     destination |-> dest, files |-> moved.files]

(* FileOrganizer.organize.  outcome is "returned" with the FileOperation,   *)
(* "hung" when handle_duplicate never returns, "raised" when an exception   *)
(* leaves organize.                                                         *)
organize(fs, c, m, cls, fault, preserved) ==
    IF fault = "mkdir"
    THEN [outcome |-> "returned",
          operation |-> FileOperation(m.path, m.path, cls.category, cls, FALSE,
                                      "Organization failed: cannot create the folder"),
          destination |-> NoPath, files |-> fs]
    ELSE LET dest == handle_duplicate(DOMAIN fs, c.duplicate_suffix_pattern,
                        FilePath(create_category_folder(c, cls.category), m.name))
             moved == move_file_safely(fs, m.path, dest, fault, preserved)
         IN IF dest = NeverReturns
            THEN [outcome |-> "hung", operation |-> NoOperation,
                  destination |-> NoPath, files |-> fs]
            ELSE [outcome |-> "returned",
                  operation |-> FileOperation(m.path, dest, cls.category, cls,
                                              moved.success, moved.error_message),
                  destination |-> dest, files |-> moved.files]

-----------------------------------------------------------------------------
(* reporter.py                                                             *)

\* an add_operation that keeps successful operations only
add_operation_SuccessOnly(log, op) == IF op.success THEN Append(log, op) ELSE log

\* an add_operation that puts the operation in front
add_operation_Prepend(log, op) == << op >> \o log

\* an add_operation that leaves out an operation the log already holds
add_operation_Idempotent(log, op) == IF InList(log, op) THEN log ELSE Append(log, op)

\* ReportGenerator.add_operation
add_operation(log, op) == Append(log, op)

CountOps(log, ok) == Cardinality({ i \in DOMAIN log : log[i].success = ok })

MovedCategories(log) == { log[i].category : i \in { k \in DOMAIN log : log[k].success } }

\* reporter.py lines 61-64: category_counts after the first k operations
RECURSIVE CategoryCounts(_, _)
CategoryCounts(log, k) ==
    IF k = 0 THEN << >>
    ELSE LET counts == CategoryCounts(log, k - 1)
             op == log[k]
             before == IF op.category \in DOMAIN counts THEN counts[op.category] ELSE 0
         IN IF op.success THEN Put(counts, op.category, before + 1) ELSE counts

\* category counts that take in the failed operations too
RECURSIVE CategoryCounts_AllOps(_, _)
CategoryCounts_AllOps(log, k) ==
    IF k = 0 THEN << >>
    ELSE LET counts == CategoryCounts_AllOps(log, k - 1)
             op == log[k]
             before == IF op.category \in DOMAIN counts THEN counts[op.category] ELSE 0
         IN Put(counts, op.category, before + 1)

\* statistics whose breakdown counts every operation
get_statistics_CountAll(log) ==
    [total_files_processed |-> Len(log),
     total_files_moved |-> CountOps(log, TRUE),
     files_skipped |-> CountOps(log, FALSE),
     category_breakdown |-> CategoryCounts_AllOps(log, Len(log))]

\* ReportGenerator.get_statistics (duration and times left out)
get_statistics(log) ==
    [total_files_processed |-> Len(log),
     total_files_moved |-> CountOps(log, TRUE),
     files_skipped |-> CountOps(log, FALSE),
     category_breakdown |-> CategoryCounts(log, Len(log))]

\* the category names of the model in the order of Python's string comparison
SortedCategoryNames ==
    << "", "Archives", "Code", "Documents", "Images", "Installers", "Miscellaneous",
       "Papers", "Plain", "Study", "Videos", "Work" >>

\* sorted(keys)
sorted(keys) ==
    LET Among(c) == c \in keys
    IN SelectSeq(SortedCategoryNames, Among)

\* f"{percentage:.1f}" of count / total_moved * 100 (no tie arises below 16 files)
Percentage(count, total_moved) ==
    LET tenths == IF total_moved > 0
                  THEN (2000 * count + total_moved) \div (2 * total_moved) ELSE 0
    IN Str(tenths \div 10) \o << ".", Digits[(tenths % 10) + 1] >>

\* str(path): the parts joined by "/"
RECURSIVE DirsText(_)
DirsText(dirs) ==
    IF Len(dirs) = 0 THEN << >> ELSE << dirs[1], "/" >> \o DirsText(Tail(dirs))

\* reporter.py lines 128-132: the destination relative to the downloads folder,
\* the whole path when it is not under that folder (ValueError)
dest_display(c, path) ==
    IF StartsWith(path.parent, c.downloads_folder)
    THEN DirsText(SubSeq(path.parent, Len(c.downloads_folder) + 1, Len(path.parent)))
         \o path.name
    ELSE << "/" >> \o DirsText(path.parent) \o path.name

\* the Documents folder under the organized folder of a downloads folder
DocumentsDirOf(downloads) == << downloads, "organized", "Documents" >>

BlankLine == << "" >>
BreakdownHeader == << "## Category Breakdown" >>
SamplesHeader == << "## Sample Operations" >>
ErrorsHeader == << "## Errors" >>

\* reporter.py lines 87-95
SummaryHead(stats) ==
    << << "# Cleanup Summary" >>, BlankLine,
       << "**Date:** " >>, << "**Duration:** " >>,
       << "**Total Files Processed:** " >> \o Str(stats.total_files_processed),
       << "**Total Files Moved:** " >> \o Str(stats.total_files_moved),
       << "**Files Skipped:** " >> \o Str(stats.files_skipped),
       BlankLine >>

\* reporter.py lines 98-110
BreakdownSection(stats) ==
    LET breakdown == stats.category_breakdown
        cats == sorted(DOMAIN breakdown)
    IN IF DOMAIN breakdown # {}
       THEN << BreakdownHeader, BlankLine,
               << "| Category | Files Moved | Percentage |" >>,
               << "|----------|-------------|------------|" >> >>
            \o [i \in 1..Len(cats) |->
                  << "| ", cats[i], " | " >> \o Str(breakdown[cats[i]]) \o << " | " >>
                  \o Percentage(breakdown[cats[i]], stats.total_files_moved)
                  \o << "% |" >>]
            \o << BlankLine >>
       ELSE << >>

\* the successful operations of a category, the latest first
operations_by_category_LatestFirst(log, category) ==
    LET Moved(op) == op.success /\ op.category = category
        ops == SelectSeq(log, Moved)
    IN [i \in 1..Len(ops) |-> ops[Len(ops) + 1 - i]]

\* reporter.py lines 118-120: operations_by_category[category]
operations_by_category(log, category) ==
    LET Moved(op) == op.success /\ op.category = category
    IN SelectSeq(log, Moved)

\* reporter.py line 133: one sample line (the backquote is written ', the
\* arrow ->)
SampleLine(c, op) ==
    << "- '" >> \o op.source_path.name \o << "' -> " >>
    \o dest_display(c, op.destination_path)
    \o << " (" >> \o op.classification.explanation \o << ")" >>

\* reporter.py lines 123-135: the blocks of the categories cats[k..]
RECURSIVE SampleBlocks(_, _, _, _)
SampleBlocks(c, log, cats, k) ==
    IF k > Len(cats) THEN << >>
    ELSE LET ops == operations_by_category(log, cats[k])
             shown == SubSeq(ops, 1, IF Len(ops) < 2 THEN Len(ops) ELSE 2)
         IN << << "### ", cats[k] >> >>
            \o [i \in 1..Len(shown) |-> SampleLine(c, shown[i])]
            \o << BlankLine >>
            \o SampleBlocks(c, log, cats, k + 1)

\* reporter.py lines 113-135
SamplesSection(c, log) ==
    IF Len(log) > 0
    THEN << SamplesHeader, BlankLine >>
         \o SampleBlocks(c, log, sorted(MovedCategories(log)), 1)
    ELSE << >>

\* reporter.py lines 138-144
ErrorsSection(log) ==
    LET Failed(op) == ~op.success
        errors == SelectSeq(log, Failed)
    IN IF Len(errors) > 0
       THEN << ErrorsHeader, BlankLine >>
            \o [i \in 1..Len(errors) |->
                  << "- '" >> \o errors[i].source_path.name
                  \o << "': ", errors[i].error_message >>]
            \o << BlankLine >>
       ELSE << >>

NoSummary == << >>

\* ReportGenerator.generate_summary: the lines of the report
generate_summary(c, log) ==
    LET stats == get_statistics(log)
    IN SummaryHead(stats) \o BreakdownSection(stats) \o SamplesSection(c, log)
       \o ErrorsSection(log)

-----------------------------------------------------------------------------
(* SpecReporter: a ReportGenerator given any sequence of operations, then  *)
(* asked for the summary                                                   *)

MaxOps == 5

\* a FileOperation as the reporter's callers build it
ReportedOperation(name, dest_dir, category, success, error_message) ==
    FileOperation(FilePath(<< "downloads" >>, name), FilePath(dest_dir, name), category,
                  [category |-> category, confidence |-> 100, method |-> "rule-based",
                   explanation |-> << "Test classification" >>],
                  success, error_message)

OperationPool ==
    { ReportedOperation(<<"a", ".", "p", "d", "f">>, DocumentsDirOf("downloads"),
                        "Documents", TRUE, "None"),
      ReportedOperation(<<"b", ".", "p", "d", "f">>, DocumentsDirOf("downloads"),
                        "Documents", TRUE, "None"),
      ReportedOperation(<<"c", ".", "p", "d", "f">>, DocumentsDirOf("downloads"),
                        "Documents", TRUE, "None"),
      ReportedOperation(<<"p", ".", "p", "n", "g">>, << "elsewhere", "Images" >>,
                        "Images", TRUE, "None"),
      ReportedOperation(<<"l", "o", "c", "k", "e", "d", ".", "p", "d", "f">>,
                        DocumentsDirOf("downloads"), "Documents", FALSE,
                        "Permission denied"),
      ReportedOperation(<<"z", ".", "z", "i", "p">>,
                        << "downloads", "organized", "Archives" >>, "Archives", FALSE,
                        "OS error") }

InitReporter ==
    /\ config_data = NoConfigData
    /\ config = get_default_config
    /\ engine = ClassificationEngine_init(config)
    /\ metadata = NoMetadata
    /\ rule_result = NoResult
    /\ ai_result = NoResult
    /\ final_result = NoResult
    /\ RunIdle

\* a call of ReportGenerator.add_operation
AddOperation ==
    /\ pc = "idle"
    /\ Len(operations) < MaxOps
    /\ \E op \in OperationPool :
          /\ operation' = op
          /\ operations' = add_operation(operations, op)
    /\ UNCHANGED << config_data, config, engine, classifyVars, file_list, files_processed, pc,
                    classification, summary, destination, files, files_at_start,
                    faults >>

\* a call of ReportGenerator.generate_summary
GenerateSummary ==
    /\ pc = "idle"
    /\ summary' = generate_summary(config, operations)
    /\ pc' = "reported"
    /\ UNCHANGED << config_data, config, engine, classifyVars, file_list, files_processed,
                    classification, operation, operations, destination, files,
                    files_at_start, faults >>

NextReporter == AddOperation \/ GenerateSummary

SpecReporter == InitReporter /\ [][NextReporter]_vars

-----------------------------------------------------------------------------
(* Spec: SmartWorkspaceAutomator.run over a scanned file list              *)

MaxFiles == 3
MaxFaults == 1

ReportStem == <<"r", "e", "p", "o", "r", "t">>
PdfExt == <<"p", "d", "f">>
PdfMime == <<"a", "p", "p", "l", "i", "c", "a", "t", "i", "o", "n", "/", "p", "d", "f">>
OctetMime == <<"a", "p", "p", "l", "i", "c", "a", "t", "i", "o", "n", "/", "o", "c", "t", "e", "t", "-", "s", "t", "r", "e", "a", "m">>

\* the folder run is given; scan lists the files directly inside it
ScannedFolder == << "downloads" >>

\* a record whose file is no longer there when organize gets to it (deleted
\* after the scan)
MissingFile == FileMetadata(ScannedFolder, <<"d", "r", "a", "f", "t">>, PdfExt, PdfMime)

\* the file records a scan of the folder may return: names are distinct
SourcePool ==
    { FileMetadata(ScannedFolder, ReportStem, PdfExt, PdfMime),
      FileMetadata(ScannedFolder, ReportStem \o <<"_", "1">>, PdfExt, PdfMime),
      FileMetadata(ScannedFolder, <<"u", "n", "k", "n", "o", "w", "n">>,
                   <<"x", "y", "z">>, OctetMime),
      MissingFile }

IsInjective(s) == \A i, j \in DOMAIN s : s[i] = s[j] => i = j

FileLists ==
    UNION { { s \in [1..n -> SourcePool] : IsInjective(s) } : n \in 0..MaxFiles }

\* files left in the Documents folder by earlier runs that moved a report.pdf
DocumentsDir == << "downloads", "organized", "Documents" >>
Earlier(stem) == FilePath(DocumentsDir, JoinName(stem, PdfExt))
EarlierFiles ==
    { {},
      { Earlier(ReportStem) },
      { Earlier(ReportStem), Earlier(ReportStem \o <<"_", "1">>) },
      { Earlier(ReportStem), Earlier(ReportStem \o <<"_", "1">>),
        Earlier(ReportStem \o <<"_", "2">>) },
      { Earlier(ReportStem), Earlier(ReportStem \o <<"-", "c", "o", "p", "y">>) } }

SuffixPatterns == { DefaultSuffixPattern, <<"-", "c", "o", "p", "y">> }

RunConfigs ==
    { [get_default_config EXCEPT !.duplicate_suffix_pattern = p] : p \in SuffixPatterns }

\* the modification time of a scanned file: a whole second for report_1.pdf,
\* 100 ns and 360 ns after it for the others
ScannedTime(p) ==
    IF p.name = JoinName(ReportStem \o <<"_", "1">>, PdfExt) THEN 0
    ELSE IF p.name = JoinName(ReportStem, PdfExt) THEN 100
    ELSE 360

InitialFiles(list, earlier) ==
    [p \in { list[i].path : i \in { k \in DOMAIN list : list[k] # MissingFile } }
            \cup earlier |->
        IF p \in earlier THEN [content |-> << "earlier" >> \o p.name, mtime |-> 50]
        ELSE [content |-> p.parent \o p.name, mtime |-> ScannedTime(p)]]

Init ==
    /\ config_data = NoConfigData
    /\ config \in { c \in RunConfigs : validate(c) = {} }
    /\ engine = ClassificationEngine_init(config)
    /\ metadata = NoMetadata
    /\ rule_result = NoResult
    /\ ai_result = NoResult
    /\ final_result = NoResult
    /\ file_list \in FileLists
    /\ \E earlier \in EarlierFiles : files = InitialFiles(file_list, earlier)
    /\ files_at_start = files
    /\ files_processed = 0
    /\ pc = "start"
    /\ classification = NoResult
    /\ operation = NoOperation
    /\ operations = << >>
    /\ summary = NoSummary
    /\ destination = NoPath
    /\ faults = 0

unchangedClassify == UNCHANGED << config_data, config, engine, metadata, rule_result, ai_result,
                                  final_result >>

\* main.py lines 57-67: nothing to process, an empty report is written
RunEmpty ==
    /\ pc = "start"
    /\ Len(file_list) = 0
    /\ summary' = generate_summary(config, operations)
    /\ pc' = "done"
    /\ UNCHANGED << file_list, files_processed, classification, operation, operations,
                    destination, files, files_at_start, faults >>
    /\ unchangedClassify

\* a loop that classifies the first file only and keeps that classification
Classify_Stale ==
    /\ pc \in { "start", "next" }
    /\ files_processed < Len(file_list)
    /\ files_processed' = files_processed + 1
    /\ classification' =
          IF classification.method = "none"
          THEN ClassificationEngine_classify(engine, file_list[files_processed'])
          ELSE classification
    /\ pc' = "organize"
    /\ UNCHANGED << file_list, operation, operations, summary, destination, files,
                    files_at_start, faults >>
    /\ unchangedClassify

\* a loop that may take the next record while the operation of the current one
\* is not yet recorded
Classify_Early ==
    /\ pc \in { "start", "next", "record" }
    /\ files_processed < Len(file_list)
    /\ files_processed' = files_processed + 1
    /\ classification' = ClassificationEngine_classify(engine, file_list[files_processed'])
    /\ pc' = "organize"
    /\ UNCHANGED << file_list, operation, operations, summary, destination, files,
                    files_at_start, faults >>
    /\ unchangedClassify

\* main.py lines 76-85: the for loop takes the next record and classifies it
Classify ==
    /\ pc \in { "start", "next" }
    /\ files_processed < Len(file_list)
    /\ files_processed' = files_processed + 1
    /\ classification' = ClassificationEngine_classify(engine, file_list[files_processed'])
    /\ pc' = "organize"
    /\ UNCHANGED << file_list, operation, operations, summary, destination, files,
                    files_at_start, faults >>
    /\ unchangedClassify

\* main.py lines 88-89, and lines 95-102 should organize raise
Organize ==
    /\ pc = "organize"
    /\ \E fault \in Faults, preserved \in BOOLEAN :
        /\ fault # "none" => faults < MaxFaults
        /\ faults' = IF fault = "none" THEN faults ELSE faults + 1
        /\ LET r == organize(files, config, file_list[files_processed],
                             classification, fault, preserved)
           IN /\ files' = r.files
              /\ destination' = r.destination
              /\ operation' = r.operation
              /\ pc' = IF r.outcome = "returned" THEN "record"
                       ELSE IF r.outcome = "hung" THEN "hung"
                       ELSE "next"
    /\ UNCHANGED << file_list, files_processed, classification, operations,
                    summary, files_at_start >>
    /\ unchangedClassify

\* a loop that gives up at the first failed operation
Record_StopOnFailure ==
    /\ pc = "record"
    /\ operations' = add_operation(operations, operation)
    /\ pc' = IF operation.success THEN "next" ELSE "done"
    /\ UNCHANGED << file_list, files_processed, classification, operation,
                    summary, destination, files, files_at_start, faults >>
    /\ unchangedClassify

\* main.py lines 90-93
Record ==
    /\ pc = "record"
    /\ operations' = add_operation(operations, operation)
    /\ pc' = "next"
    /\ UNCHANGED << file_list, files_processed, classification, operation,
                    summary, destination, files, files_at_start, faults >>
    /\ unchangedClassify

\* main.py lines 104-120: the loop is over, the report is written
Finish ==
    /\ pc = "next"
    /\ files_processed = Len(file_list)
    /\ summary' = generate_summary(config, operations)
    /\ pc' = "done"
    /\ UNCHANGED << file_list, files_processed, classification, operation, operations,
                    destination, files, files_at_start, faults >>
    /\ unchangedClassify

Next == RunEmpty \/ Classify \/ Organize \/ Record \/ Finish

Spec == Init /\ [][Next]_vars

-----------------------------------------------------------------------------
(* SpecStrategy: run under each duplicate handling strategy validate       *)
(* accepts                                                                 *)

Strategies == { "rename", "skip", "overwrite" }

InitStrategy ==
    /\ config_data = NoConfigData
    /\ config \in { c \in { [get_default_config EXCEPT !.duplicate_handling_strategy = st] :
                             st \in Strategies } : validate(c) = {} }
    /\ engine = ClassificationEngine_init(config)
    /\ metadata = NoMetadata
    /\ rule_result = NoResult
    /\ ai_result = NoResult
    /\ final_result = NoResult
    /\ file_list \in FileLists
    /\ \E earlier \in EarlierFiles : files = InitialFiles(file_list, earlier)
    /\ files_at_start = files
    /\ files_processed = 0
    /\ pc = "start"
    /\ classification = NoResult
    /\ operation = NoOperation
    /\ operations = << >>
    /\ summary = NoSummary
    /\ destination = NoPath
    /\ faults = 0

NextStrategy == RunEmpty \/ Classify \/ Organize \/ Record \/ Finish

SpecStrategy == InitStrategy /\ [][NextStrategy]_vars

-----------------------------------------------------------------------------
(* scanner.py.  In SpecScan an entry of the file system carries, besides    *)
(* content and mtime, its kind: "file" a regular file, "dir" a directory,   *)
(* "fifo" a named pipe, "dangling" a symbolic link whose target is gone     *)
(* (is_dir() is False, stat() raises FileNotFoundError); and                *)
(* hidden_attribute, the Windows hidden flag, which _is_hidden reads where  *)
(* os.name is 'nt' and which is FALSE everywhere else.                      *)

\* str.endswith(p)
EndsWith(s, p) == Len(s) >= Len(p) /\ SubSeq(s, Len(s) - Len(p) + 1, Len(s)) = p

\* FileScanner._is_hidden
is_hidden(fs, p) == StartsWith(p.name, << "." >>) \/ fs[p].hidden_attribute

\* a system-file test that leaves hidden files in
is_system_file_PatternsOnly(c, fs, p) ==
    \E i \in DOMAIN c.system_file_patterns.items :
        \/ EndsWith(p.name, c.system_file_patterns.items[i])
        \/ p.name = c.system_file_patterns.items[i]

\* FileScanner.is_system_file
is_system_file(c, fs, p) ==
    \/ is_hidden(fs, p)
    \/ \E i \in DOMAIN c.system_file_patterns.items :
          \/ EndsWith(p.name, c.system_file_patterns.items[i])
          \/ p.name = c.system_file_patterns.items[i]

\* mimetypes.guess_type for the extensions of the model; None otherwise
guess_type(name) ==
    LET ext == lower(Path_suffix(name))
    IN IF ext = <<".", "p", "d", "f">> THEN PdfMime
       ELSE IF ext = <<".", "t", "x", "t">> THEN <<"t", "e", "x", "t", "/", "p", "l", "a", "i", "n">>
       ELSE << >>

\* FileScanner.extract_metadata (size, modified_time and is_hidden left out)
extract_metadata(p) ==
    [path |-> p,
     name |-> p.name,
     extension |-> IF Len(Path_suffix(p.name)) > 0
                   THEN lower(Tail(Path_suffix(p.name))) ELSE << >>,
     mime_type |-> IF guess_type(p.name) = << >> THEN OctetMime
                   ELSE guess_type(p.name)]

\* FileScanner.scan: the records of metadata_list, as a set
scan(c, fs, folder_path) ==
    { extract_metadata(item) :
        item \in { p \in DOMAIN fs :
                     /\ p.parent = folder_path
                     /\ fs[p].kind # "dir"
                     /\ ~is_system_file(c, fs, p)
                     /\ fs[p].kind # "dangling" } }

\* the orders in which iterdir may yield the entries
Orderings(S) == { s \in [1..Cardinality(S) -> S] : IsInjective(s) }

-----------------------------------------------------------------------------
(* SpecScan: run from the scan of a folder on                              *)

Entry(kind, hidden_attribute, name) ==
    [content |-> << kind >> \o name, mtime |-> 100, kind |-> kind,
     hidden_attribute |-> hidden_attribute]

\* what the scanned folder may hold: path and entry
FolderPool ==
    { << FilePath(ScannedFolder, JoinName(ReportStem, PdfExt)),
         Entry("file", FALSE, JoinName(ReportStem, PdfExt)) >>,
      << FilePath(ScannedFolder, <<"U", "P", ".", "T", "M", "P">>),
         Entry("file", FALSE, <<"U", "P", ".", "T", "M", "P">>) >>,
      << FilePath(ScannedFolder, <<"p", "i", "p", "e">>),
         Entry("fifo", FALSE, <<"p", "i", "p", "e">>) >>,
      << FilePath(ScannedFolder, <<"x", ".", "t", "m", "p">>),
         Entry("file", FALSE, <<"x", ".", "t", "m", "p">>) >>,
      << FilePath(ScannedFolder, <<".", "D", "S", "_", "S", "t", "o", "r", "e">>),
         Entry("file", FALSE, <<".", "D", "S", "_", "S", "t", "o", "r", "e">>) >>,
      << FilePath(ScannedFolder, <<"s", "e", "c", "r", "e", "t", ".", "p", "d", "f">>),
         Entry("file", TRUE, <<"s", "e", "c", "r", "e", "t", ".", "p", "d", "f">>) >>,
      << FilePath(ScannedFolder, <<"s", "t", "a", "l", "e", ".", "p", "d", "f">>),
         Entry("dangling", FALSE, <<"s", "t", "a", "l", "e", ".", "p", "d", "f">>) >>,
      << FilePath(ScannedFolder, <<"s", "u", "b">>),
         Entry("dir", FALSE, <<"s", "u", "b">>) >> }

\* the entries chosen, and a file inside the subdirectory when that is there
FolderContents(chosen) ==
    LET inner == << FilePath(<< "downloads", "sub" >>, JoinName(ReportStem, PdfExt)),
                    Entry("file", FALSE, JoinName(ReportStem, PdfExt)) >>
        all == IF \E e \in chosen : e[2].kind = "dir" THEN chosen \cup { inner }
               ELSE chosen
    IN [p \in { e[1] : e \in all } |-> (CHOOSE e \in all : e[1] = p)[2]]

InitScan ==
    /\ config_data = NoConfigData
    /\ config = get_default_config
    /\ engine = ClassificationEngine_init(config)
    /\ metadata = NoMetadata
    /\ rule_result = NoResult
    /\ ai_result = NoResult
    /\ final_result = NoResult
    /\ file_list = << >>
    /\ files \in { FolderContents(chosen) : chosen \in SUBSET FolderPool }
    /\ files_at_start = files
    /\ files_processed = 0
    /\ pc = "scan"
    /\ classification = NoResult
    /\ operation = NoOperation
    /\ operations = << >>
    /\ summary = NoSummary
    /\ destination = NoPath
    /\ faults = 0

\* main.py line 55: file_list = self.scanner.scan(folder_path)
Scan ==
    /\ pc = "scan"
    /\ file_list' \in Orderings(scan(config, files, ScannedFolder))
    /\ pc' = "start"
    /\ UNCHANGED << files_processed, classification, operation, operations, summary,
                    destination, files, files_at_start, faults >>
    /\ unchangedClassify

NextScan == Scan \/ RunEmpty \/ Classify \/ Organize \/ Record \/ Finish

SpecScan == InitScan /\ [][NextScan]_vars

-----------------------------------------------------------------------------
(* Properties of the run, the organizer and the reporter                   *)

Stats == get_statistics(operations)

\* C1: at the end of a run over N file records exactly N FileOperations are
\* recorded in the Reporter, one per record in order, total processed is N and
\* moved + skipped is N.
C1_NoLoss ==
    pc = "done"
    => /\ Len(operations) = Len(file_list)
       /\ \A i \in DOMAIN operations : operations[i].source_path = file_list[i].path
       /\ Stats.total_files_processed = Len(file_list)
       /\ Stats.total_files_moved + Stats.files_skipped = Len(file_list)

\* a finished run over three records with moved and skipped files
C1_Witness ==
    /\ pc = "done"
    /\ Len(file_list) = 3
    /\ Stats.total_files_moved = 2
    /\ Stats.files_skipped = 1

\* C2: at any time the statistics give total processed = length of the log =
\* moved + skipped, and every operation counted as skipped has an error message.
C2_Accounting ==
    /\ Stats.total_files_processed = Len(operations)
    /\ Stats.total_files_processed = Stats.total_files_moved + Stats.files_skipped
    /\ \A i \in DOMAIN operations :
         ~operations[i].success => operations[i].error_message # "None"

\* the log holds a skipped operation of a failed move next to a moved one
C2_Witness ==
    /\ Stats.total_files_moved >= 1
    /\ \E i \in DOMAIN operations :
         /\ ~operations[i].success
         /\ operations[i].destination_path # operations[i].source_path

\* C3: organize never raises to its caller: whenever it returns, whatever the
\* file system did, it hands run a FileOperation whose category and
\* classification are the input classification's and whose error message is
\* non-null exactly when success is false.
C3_OrganizeNeverRaises ==
    [][(pc = "organize" /\ pc' # "hung")
        => /\ pc' = "record"
           /\ operation'.source_path = file_list[files_processed].path
           /\ operation'.category = classification.category
           /\ operation'.classification = classification
           /\ (operation'.error_message # "None") <=> ~operation'.success]_vars

\* organize returned a failed operation after the category folder could not be made
C3_Witness ==
    /\ pc = "record"
    /\ ~operation.success
    /\ destination = NoPath
    /\ operation.error_message # "None"
    /\ operation.category = "Documents"

\* C4: an operation that failed in the move (the destination was resolved and
\* move_file_safely reported the failure) has destination_path equal to its
\* source path.
C4_FailedMoveKeepsSource ==
    (pc = "record" /\ ~operation.success /\ destination # NoPath)
    => operation.destination_path = operation.source_path

\* C5: after a successful organize the file is at the operation's destination
\* and no longer at its source, and every other file that existed before the
\* call still exists with the same content: a collision overwrites nothing.
C5_MoveWithoutLoss ==
    [][(pc = "organize" /\ pc' = "record" /\ operation'.success)
        => LET src == file_list[files_processed].path
               dst == operation'.destination_path
           IN /\ Exists(files', dst)
              /\ ~Exists(files', src)
              /\ files'[dst].content = files[src].content
              /\ \A p \in (DOMAIN files) \ {src} :
                    Exists(files', p) /\ files'[p] = files[p]]_vars

\* a file was moved next to an earlier file of the same name, both are there
C5_Witness ==
    /\ pc = "record"
    /\ operation.success
    /\ operation.destination_path.name # operation.source_path.name
    /\ Exists(files, operation.destination_path)
    /\ LET naive == FilePath(operation.destination_path.parent,
                             operation.source_path.name)
       IN Exists(files, naive) /\ files[naive].content[1] = "earlier"

Report_pdf == <<"r", "e", "p", "o", "r", "t", ".", "p", "d", "f">>
Report_1_pdf == <<"r", "e", "p", "o", "r", "t", "_", "1", ".", "p", "d", "f">>
Report_2_pdf == <<"r", "e", "p", "o", "r", "t", "_", "2", ".", "p", "d", "f">>
Report_3_pdf == <<"r", "e", "p", "o", "r", "t", "_", "3", ".", "p", "d", "f">>

\* C6: duplicate resolution returns the destination itself when it does not
\* exist, otherwise stem + template(n) + suffix for the smallest n >= 1 whose
\* path does not exist; the returned path does not exist when it is returned;
\* with template _{n}, report.pdf resolves to report_1.pdf, then report_2.pdf,
\* then report_3.pdf.
C6_DuplicateResolution ==
    [][(pc = "organize" /\ destination' # NoPath)
        => LET naive == FilePath(create_category_folder(config, classification.category),
                                 file_list[files_processed].name)
               nth(n) == FilePath(naive.parent,
                                  NewName(naive.name, config.duplicate_suffix_pattern, n))
               at(name) == FilePath(naive.parent, name)
           IN /\ ~Exists(files, destination')
              /\ ~Exists(files, naive) => destination' = naive
              /\ Exists(files, naive)
                    => \E n \in 1..(Cardinality(DOMAIN files) + 1) :
                          /\ destination' = nth(n)
                          /\ \A k \in 1..(n - 1) : Exists(files, nth(k))
              /\ (config.duplicate_suffix_pattern = DefaultSuffixPattern
                    /\ naive.name = Report_pdf /\ Exists(files, naive))
                    => /\ ~Exists(files, at(Report_1_pdf))
                          => destination'.name = Report_1_pdf
                       /\ (Exists(files, at(Report_1_pdf))
                             /\ ~Exists(files, at(Report_2_pdf)))
                          => destination'.name = Report_2_pdf
                       /\ (Exists(files, at(Report_1_pdf))
                             /\ Exists(files, at(Report_2_pdf))
                             /\ ~Exists(files, at(Report_3_pdf)))
                          => destination'.name = Report_3_pdf]_vars

\* report.pdf, report_1.pdf and report_2.pdf were taken: report.pdf was moved
\* to report_3.pdf
C6_Witness ==
    /\ pc = "record"
    /\ config.duplicate_suffix_pattern = DefaultSuffixPattern
    /\ operation.success /\ operation.source_path.name = Report_pdf
    /\ \A n \in { Report_pdf, Report_1_pdf, Report_2_pdf } :
          Exists(files_at_start, FilePath(DocumentsDir, n))
    /\ operation.destination_path = FilePath(DocumentsDir, Report_3_pdf)
    /\ Exists(files, operation.destination_path)

\* a file whose extension is not configured, whose MIME type matches no rule
\* and whose name holds no keyword
IsUnknownFile(m) ==
    /\ lower(m.extension) \notin DOMAIN engine.extension_mappings
    /\ classify_by_mime(m.mime_type) = "None"
    /\ FirstKeyword(study_keywords, lower(m.name)) = 0
    /\ FirstKeyword(work_keywords, lower(m.name)) = 0

MiscellaneousDir == << "downloads", "organized", "Miscellaneous" >>

\* C11 as stated: the operation recorded for such a file has category
\* Miscellaneous, final confidence 0.3 and method rule-based.
C11_UnknownFileRule ==
    \A i \in DOMAIN operations :
        IsUnknownFile(file_list[i])
        => /\ operations[i].category = "Miscellaneous"
           /\ operations[i].classification.confidence = 30
           /\ operations[i].classification.method = "rule-based"

\* C11 amended: under the default configuration (heuristics enabled, threshold
\* 0.7) the operation recorded for such a file has category Miscellaneous,
\* final confidence 0.4 and method merged, and when the move succeeds the file
\* is in the Miscellaneous folder.
C11_UnknownFileMerged ==
    \A i \in DOMAIN operations :
        IsUnknownFile(file_list[i])
        => /\ operations[i].category = "Miscellaneous"
           /\ operations[i].classification.category = "Miscellaneous"
           /\ operations[i].classification.confidence = 40
           /\ operations[i].classification.method = "merged"
           /\ operations[i].success
                => /\ operations[i].destination_path.parent = MiscellaneousDir
                   /\ Exists(files, operations[i].destination_path)

\* a finished run moved unknown.xyz into Miscellaneous
C11_Witness ==
    /\ pc = "done"
    /\ \E i \in DOMAIN operations :
          /\ IsUnknownFile(file_list[i])
          /\ operations[i].source_path.name = <<"u", "n", "k", "n", "o", "w", "n", ".", "x", "y", "z">>
          /\ operations[i].success
          /\ Exists(files, FilePath(MiscellaneousDir, operations[i].source_path.name))

\* C12: a file whose organization fails yields a failed operation with a
\* non-empty error message and does not stop the run: in a finished run every
\* file after it in the list has been classified, organized and recorded.
C12_Resilience ==
    /\ \A i \in DOMAIN operations :
          ~operations[i].success => operations[i].error_message \notin { "None", "" }
    /\ pc = "done"
          => \A i \in DOMAIN operations :
                ~operations[i].success
                => \A j \in (i + 1)..Len(file_list) :
                      /\ j \in DOMAIN operations
                      /\ operations[j].source_path = file_list[j].path
                      /\ operations[j].classification
                            = ClassificationEngine_classify(engine, file_list[j])
                      /\ operations[j].success
                            => Exists(files, operations[j].destination_path)

\* the first file of three no longer existed; the two after it were moved
C12_Witness ==
    /\ pc = "done"
    /\ Len(file_list) = 3
    /\ operations[1].source_path = MissingFile.path
    /\ ~operations[1].success
    /\ operations[1].error_message = MoveFailure("missing")
    /\ operations[2].success /\ Exists(files, operations[2].destination_path)
    /\ operations[3].success /\ Exists(files, operations[3].destination_path)

\* what organize returns for the i-th file of the list when it is the first
\* file processed and no I/O failure occurs
OutcomeFirst(i) ==
    organize(files_at_start, config, file_list[i],
             ClassificationEngine_classify(engine, file_list[i]), "none", TRUE)

\* C14 as stated: the outcome of a file does not depend on its place in the
\* processing order: in a run without I/O failures its operation has the
\* category, the success flag and the destination path it has when the file
\* is processed first.
C14_OrderIndependent ==
    faults = 0
    => \A i \in DOMAIN operations :
          LET first == OutcomeFirst(i)
          IN first.outcome = "returned"
             => /\ operations[i].category = first.operation.category
                /\ operations[i].success = first.operation.success
                /\ operations[i].destination_path = first.operation.destination_path

\* C14 amended: in any order a file has the same category, the same success
\* flag and the same destination folder; its destination name is the same too
\* unless duplicate resolution renamed it.
C14_OrderIndependentOutcome ==
    faults = 0
    => \A i \in DOMAIN operations :
          LET first == OutcomeFirst(i)
          IN first.outcome = "returned"
             => /\ operations[i].category = first.operation.category
                /\ operations[i].success = first.operation.success
                /\ operations[i].destination_path.parent
                     = first.operation.destination_path.parent
                /\ operations[i].destination_path.name = file_list[i].name
                     => operations[i].destination_path
                          = first.operation.destination_path

\* report_1.pdf, processed after report.pdf had taken its name in the
\* Documents folder, was moved to another path than when processed first
C14_Witness ==
    /\ pc = "done"
    /\ faults = 0
    /\ Len(operations) = 2
    /\ operations[1].success /\ operations[2].success
    /\ operations[1].destination_path = OutcomeFirst(1).operation.destination_path
    /\ operations[2].category = OutcomeFirst(2).operation.category
    /\ operations[2].destination_path # OutcomeFirst(2).operation.destination_path
    /\ OutcomeFirst(2).operation.destination_path.name = file_list[2].name

\* C16 as stated: after a successful organize the modification time of the
\* destination file is the modification time the source had before the move.
C16_TimestampEqual ==
    [][(pc = "organize" /\ pc' = "record" /\ operation'.success)
        => files'[operation'.destination_path].mtime
             = files[file_list[files_processed].path].mtime]_vars

\* C16 amended: after a successful organize the destination's st_mtime (the
\* float the code reads) is the source's st_mtime before the move, and the
\* time stored is within half a float step (120 ns) of the source's.
C16_TimestampToFloat ==
    [][(pc = "organize" /\ pc' = "record" /\ operation'.success)
        => LET after == files'[operation'.destination_path].mtime
               before == files[file_list[files_processed].path].mtime
           IN /\ st_mtime(after) = st_mtime(before)
              /\ after - before \in (0 - HalfStepNanos)..HalfStepNanos]_vars

\* a moved file whose time was not on a float value: the destination's time
\* differs from the time the source had, the two floats agree
C16_Witness ==
    /\ pc = "record"
    /\ operation.success
    /\ files[operation.destination_path].mtime
          # files_at_start[operation.source_path].mtime
    /\ st_mtime(files[operation.destination_path].mtime)
          = st_mtime(files_at_start[operation.source_path].mtime)
    /\ files[operation.destination_path].mtime # Now

-----------------------------------------------------------------------------
(* Properties of the reporter                                              *)

RECURSIVE SumOver(_, _)
SumOver(f, S) ==
    IF S = {} THEN 0
    ELSE LET x == CHOOSE y \in S : TRUE IN f[x] + SumOver(f, S \ {x})

MovedIn(cat) ==
    { i \in DOMAIN operations : operations[i].success /\ operations[i].category = cat }

\* C13: for any operation log the category breakdown maps each category to the
\* number of successful operations of that category: failed operations are not
\* counted, a category without a successful operation is absent, and the
\* counts add up to total_files_moved.
C13_CategoryBreakdown ==
    LET breakdown == Stats.category_breakdown
    IN /\ \A cat \in DOMAIN breakdown :
             breakdown[cat] = Cardinality(MovedIn(cat)) /\ breakdown[cat] >= 1
       /\ \A i \in DOMAIN operations :
             operations[i].category \in DOMAIN breakdown
                <=> MovedIn(operations[i].category) # {}
       /\ SumOver(breakdown, DOMAIN breakdown) = Stats.total_files_moved

\* two moved Documents, one moved Image and a failed Archive: the breakdown
\* has Documents 2 and Images 1 and no Archives
C13_Witness ==
    /\ Len(operations) = 4
    /\ \E i \in DOMAIN operations :
          ~operations[i].success /\ operations[i].category = "Archives"
    /\ DOMAIN Stats.category_breakdown = { "Documents", "Images" }
    /\ Stats.category_breakdown["Documents"] = 2
    /\ Stats.category_breakdown["Images"] = 1

\* C15: the summary has no section without data: a Category Breakdown header
\* only with a successful operation, a Sample Operations header only with a
\* successful operation to sample, an Errors header only with a failed one.
C15_NoEmptySections ==
    pc = "reported"
    => /\ InList(summary, BreakdownHeader) => Stats.total_files_moved >= 1
       /\ InList(summary, SamplesHeader) => Stats.total_files_moved >= 1
       /\ InList(summary, ErrorsHeader) => Stats.files_skipped >= 1

\* C17: each add_operation call adds the operation it is given at the end of
\* the log and leaves every earlier entry where it was, so the log is the
\* sequence of the operations passed, in call order.
C17_InsertionOrder ==
    [][operations' # operations
        => /\ Len(operations') = Len(operations) + 1
           /\ operations'[Len(operations')] = operation'
           /\ \A i \in DOMAIN operations : operations'[i] = operations[i]]_vars

\* three different operations are in the log in the order they were added
C17_Witness ==
    /\ Len(operations) = 3
    /\ operations[1] # operations[2] /\ operations[2] # operations[3]
    /\ operations[1] # operations[3]
    /\ operation = operations[3]
    /\ ~operations[1].success /\ operations[2].success

\* C18 as stated: adding a FileOperation the log already holds leaves the log
\* and the statistics as they were.
C18_IdempotentAppend ==
    [][(pc' = "idle" /\ InList(operations, operation'))
        => /\ operations' = operations
           /\ get_statistics(operations') = get_statistics(operations)]_vars

\* C18 amended: add_operation is a plain append: adding a FileOperation the
\* log already holds appends a second entry, and total_files_processed grows
\* by one.
C18_PlainAppend ==
    [][(pc' = "idle" /\ InList(operations, operation'))
        => /\ operations' = Append(operations, operation')
           /\ get_statistics(operations').total_files_processed
                = get_statistics(operations).total_files_processed + 1]_vars

\* the same operation was added twice in a row and is in the log twice
C18_Witness ==
    /\ Len(operations) >= 2
    /\ operations[Len(operations)] = operations[Len(operations) - 1]
    /\ operation = operations[Len(operations)]
    /\ Stats.total_files_processed = Len(operations)

-----------------------------------------------------------------------------
(* Properties of the classifiers                                           *)

RuleOf(m) == RuleBasedClassifier_classify(engine.extension_mappings, m)

\* C7 as stated: every file whose lower-cased extension is a key of the
\* extension table gets the table's category with confidence 1.0 from the rule
\* classifier, method rule-based, whatever its MIME type and name.
C7_AnyKeyExtension ==
    (rule_result.method # "none"
        /\ lower(metadata.extension) \in DOMAIN engine.extension_mappings)
    => /\ rule_result.category
            = engine.extension_mappings[lower(metadata.extension)]
       /\ rule_result.confidence = 100
       /\ rule_result.method = "rule-based"

\* C7 amended: every file whose extension is not empty and, lower-cased, is a
\* key of the extension table gets the table's category with confidence 1.0
\* and method rule-based, whatever its MIME type and name.
C7_NonEmptyKeyExtension ==
    (rule_result.method # "none"
        /\ Len(metadata.extension) > 0
        /\ lower(metadata.extension) \in DOMAIN engine.extension_mappings)
    => /\ rule_result.category
            = engine.extension_mappings[lower(metadata.extension)]
       /\ rule_result.confidence = 100
       /\ rule_result.method = "rule-based"

\* an upper-case extension matched a key although the MIME rules name another category
C7_Witness ==
    /\ rule_result.method = "rule-based"
    /\ metadata.extension # lower(metadata.extension)
    /\ lower(metadata.extension) \in DOMAIN engine.extension_mappings
    /\ classify_by_mime(metadata.mime_type) \notin { "None", rule_result.category }
    /\ rule_result.confidence = 100

\* C8: when heuristics are enabled and the rule confidence is strictly below
\* the configured threshold, the engine's final result has method merged.
C8_AmbiguityGate ==
    (final_result.method # "none"
        /\ config.ai_classifier_enabled
        /\ RuleOf(metadata).confidence < config.ambiguity_threshold)
    => final_result.method = "merged"

\* a MIME-classified file (0.8) below a threshold of 1.0 came out merged
C8_Witness ==
    /\ final_result.method = "merged"
    /\ config.ai_classifier_enabled
    /\ RuleOf(metadata).confidence = 80
    /\ config.ambiguity_threshold = 100

\* C9: the merged result has method merged and takes category and confidence
\* from the side with the strictly higher confidence, from the rule result on a
\* tie; its category and confidence are those of one of the two inputs.
C9_MergePolicy ==
    final_result.method # "none"
    => /\ final_result.method = "merged"
       /\ ai_result.confidence > rule_result.confidence
            => /\ final_result.category = ai_result.category
               /\ final_result.confidence = ai_result.confidence
       /\ ai_result.confidence <= rule_result.confidence
            => /\ final_result.category = rule_result.category
               /\ final_result.confidence = rule_result.confidence
       /\ << final_result.category, final_result.confidence >>
            \in { << rule_result.category, rule_result.confidence >>,
                  << ai_result.category, ai_result.confidence >> }

\* two results of equal confidence and different categories were merged
C9_Witness ==
    /\ final_result.method = "merged"
    /\ ai_result.confidence = rule_result.confidence
    /\ ai_result.category # rule_result.category
    /\ final_result.category = rule_result.category

WellFormed(r) ==
    /\ 0 <= r.confidence /\ r.confidence <= 100
    /\ r.category # ""
    /\ ~IsEmptyText(r.explanation)

\* C10: under every configuration accepted by validation, each result the rule
\* classifier, the heuristic classifier and the engine return has a confidence
\* in [0.0, 1.0], a non-empty category and a non-empty explanation.
C10_WellFormedResults ==
    /\ rule_result.method # "none" => WellFormed(rule_result)
    /\ ai_result.method # "none" => WellFormed(ai_result)
    /\ final_result.method # "none" => WellFormed(final_result)

\* C19: when heuristics are disabled, or the rule confidence is at least the
\* configured threshold (equal included), the engine returns the rule result
\* unchanged, method rule-based, whatever keyword the file name holds.
C19_UnambiguousKeepsRule ==
    (final_result.method # "none"
        /\ (~config.ai_classifier_enabled
              \/ RuleOf(metadata).confidence >= config.ambiguity_threshold))
    => /\ final_result = RuleOf(metadata)
       /\ final_result.method = "rule-based"

\* heuristics enabled, rule confidence 0.8 equal to the threshold, a name with
\* a keyword the heuristic classifier rates 0.85: the rule result came back
C19_Witness ==
    /\ final_result.method = "rule-based"
    /\ config.ai_classifier_enabled
    /\ config.ambiguity_threshold = 80
    /\ final_result.confidence = 80
    /\ AIClassifier_classify(metadata).confidence = 85
    /\ AIClassifier_classify(metadata).category # final_result.category

\* C20: for a file whose extension is not a key of the table the rule
\* classifier answers by MIME type with confidence 0.8: image/ gives Images,
\* video/ Videos, text/ Documents, the listed document types Documents, the
\* listed archive types Archives; with no MIME rule it answers Miscellaneous
\* with confidence 0.3; the method is rule-based in both cases.
C20_MimeRules ==
    (rule_result.method # "none"
        /\ lower(metadata.extension) \notin DOMAIN engine.extension_mappings)
    => LET mt == metadata.mime_type
           Gives(category, confidence) ==
               /\ rule_result.category = category
               /\ rule_result.confidence = confidence
           image == StartsWith(mt, ImagePrefix)
           video == StartsWith(mt, VideoPrefix)
           text == StartsWith(mt, TextPrefix)
           document == InList(DocumentMimes, mt)
           archive == InList(ArchiveMimes, mt)
       IN /\ rule_result.method = "rule-based"
          /\ image => Gives("Images", 80)
          /\ video => Gives("Videos", 80)
          /\ text => Gives("Documents", 80)
          /\ document => Gives("Documents", 80)
          /\ archive => Gives("Archives", 80)
          /\ ~(image \/ video \/ text \/ document \/ archive)
                => Gives("Miscellaneous", 30)

\* a file with the unconfigured extension xyz and MIME type application/msword
\* was put into Documents with confidence 0.8
C20_Witness ==
    /\ rule_result.method = "rule-based"
    /\ metadata.extension = <<"x", "y", "z">>
    /\ lower(metadata.extension) \notin DOMAIN engine.extension_mappings
    /\ metadata.mime_type = DocumentMimes[2]
    /\ rule_result.category = "Documents"
    /\ rule_result.confidence = 80

\* the keywords of a vocabulary that occur in the lower-cased file name
KeywordsIn(keywords, m) ==
    { i \in DOMAIN keywords : Contains(lower(m.name), keywords[i]) }

\* C21: the heuristic classifier searches the lower-cased name by substring:
\* a name with an academic keyword gives Study 0.85 even when it holds a
\* professional keyword too, a name with professional keywords only gives Work
\* 0.85, a name without keyword gives Miscellaneous 0.4; the explanation names
\* a keyword of the winning vocabulary that occurs in the name.
C21_HeuristicKeywords ==
    ai_result.method # "none"
    => LET study == KeywordsIn(study_keywords, metadata)
           work == KeywordsIn(work_keywords, metadata)
       IN /\ study # {}
                => /\ ai_result.category = "Study"
                   /\ ai_result.confidence = 85
                   /\ \E i \in study : Contains(ai_result.explanation, study_keywords[i])
          /\ (study = {} /\ work # {})
                => /\ ai_result.category = "Work"
                   /\ ai_result.confidence = 85
                   /\ \E i \in work : Contains(ai_result.explanation, work_keywords[i])
          /\ (study = {} /\ work = {})
                => /\ ai_result.category = "Miscellaneous"
                   /\ ai_result.confidence = 40

\* Invoice_Notes, with the professional keyword invoice and the academic
\* keyword notes under capitals, was classified Study
C21_Witness ==
    /\ ai_result.method = "ai"
    /\ KeywordsIn(study_keywords, metadata) # {}
    /\ KeywordsIn(work_keywords, metadata) # {}
    /\ metadata.name # lower(metadata.name)
    /\ ai_result.category = "Study"

\* C22: whenever the engine's final confidence is below 0.5 the final category
\* is Miscellaneous, for every file and every configuration that validates.
C22_LowConfidenceFallback ==
    (final_result.method # "none" /\ final_result.confidence < 50)
    => final_result.category = "Miscellaneous"

\* a file of unknown type and without keyword ended at 0.4 after a merge, and
\* the table holds categories other than Miscellaneous
C22_Witness ==
    /\ final_result.method = "merged"
    /\ final_result.confidence = 40
    /\ final_result.category = "Miscellaneous"
    /\ Len(config.categories) > 1

\* C23: the pipeline is strictly sequential.  At most one file is in work: the
\* files before it have their operation in the log, in the order of the list;
\* organize runs on the classification of the file in work, its operation is
\* recorded after organize returned, and the next file is taken only then.
C23_StrictlySequential ==
    /\ \A i \in DOMAIN operations :
          /\ i <= Len(file_list)
          /\ operations[i].source_path = file_list[i].path
    /\ pc \in { "start", "next", "done" } => Len(operations) = files_processed
    /\ pc \in { "organize", "record", "hung" }
          => /\ files_processed = Len(operations) + 1
             /\ classification
                  = ClassificationEngine_classify(engine, file_list[files_processed])
    /\ pc = "record"
          => /\ operation.source_path = file_list[files_processed].path
             /\ operation.classification = classification

\* three files went through the loop, the second one failed, and the log
\* holds the three operations in the order of the list
C23_Witness ==
    /\ pc = "done"
    /\ Len(file_list) = 3
    /\ Len(operations) = 3
    /\ ~operations[2].success
    /\ operations[3].success
    /\ \A i \in 1..3 : operations[i].source_path = file_list[i].path

\* C24: in the summary the category blocks of the samples section are those of
\* the categories with a successful operation, in lexicographic order; each
\* block lists the first two (or the only) successful operations of its
\* category in processing order and nothing else; the errors section lists the
\* failed operations, each once, in processing order.
C24_SummaryOrdering ==
    pc = "reported"
    => LET IsCategoryLine(line) == Len(line) = 2 /\ line[1] = "### "
           IsSampleLine(line) ==
               Len(line) > 0 /\ line[1] = "- '" /\ InList(line, "' -> ")
           IsErrorLine(line) ==
               Len(line) > 0 /\ line[1] = "- '" /\ InList(line, "': ")
           CategoryRank(name) ==
               CHOOSE i \in DOMAIN SortedCategoryNames : SortedCategoryNames[i] = name
           MovedAt(cat) == { i \in DOMAIN operations :
                               operations[i].success /\ operations[i].category = cat }
           FailedAt == { i \in DOMAIN operations : ~operations[i].success }
           Nth(S, k) == CHOOSE i \in S : Cardinality({ j \in S : j < i }) = k - 1
           blocks == SelectSeq(summary, IsCategoryLine)
           samples == SelectSeq(summary, IsSampleLine)
           errors == SelectSeq(summary, IsErrorLine)
           ShownOf(cat) == IF Cardinality(MovedAt(cat)) < 2
                           THEN Cardinality(MovedAt(cat)) ELSE 2
       IN /\ { blocks[i][2] : i \in DOMAIN blocks } = MovedCategories(operations)
          /\ \A i, j \in DOMAIN blocks :
                i < j => CategoryRank(blocks[i][2]) < CategoryRank(blocks[j][2])
          /\ \A h \in DOMAIN summary :
                IsCategoryLine(summary[h])
                => LET cat == summary[h][2]
                   IN /\ \A k \in 1..ShownOf(cat) :
                            summary[h + k]
                              = SampleLine(config, operations[Nth(MovedAt(cat), k)])
                      /\ summary[h + ShownOf(cat) + 1] = BlankLine
          /\ Len(samples) = SumOver([cat \in MovedCategories(operations) |-> ShownOf(cat)],
                                    MovedCategories(operations))
          /\ Len(errors) = Cardinality(FailedAt)
          /\ \A k \in DOMAIN errors :
                LET op == operations[Nth(FailedAt, k)]
                IN errors[k] = << "- '" >> \o op.source_path.name
                               \o << "': ", op.error_message >>

\* p.png, c.pdf, a failure, a.pdf and b.pdf were added in this order: the
\* summary shows Documents before Images, c.pdf and a.pdf but not b.pdf
C24_Witness ==
    /\ pc = "reported"
    /\ Len(operations) = 5
    /\ operations[1].category = "Images" /\ operations[1].success
    /\ operations[2].source_path.name = <<"c", ".", "p", "d", "f">>
    /\ ~operations[3].success
    /\ operations[4].source_path.name = <<"a", ".", "p", "d", "f">>
    /\ operations[5].source_path.name = <<"b", ".", "p", "d", "f">>
    /\ InList(summary, SampleLine(config, operations[2]))
    /\ InList(summary, SampleLine(config, operations[4]))
    /\ ~InList(summary, SampleLine(config, operations[5]))

\* C25 as stated: the scan returns exactly the regular files directly inside
\* the folder whose name neither starts with a dot nor matches a system-file
\* pattern, and the run moves none of the others.
C25_ScanRegularFiles ==
    pc # "scan"
    => LET MatchesPattern(name) ==
               \E i \in DOMAIN config.system_file_patterns.items :
                   \/ EndsWith(name, config.system_file_patterns.items[i])
                   \/ name = config.system_file_patterns.items[i]
           scanned == { file_list[i].path : i \in DOMAIN file_list }
       IN /\ scanned
               = { p \in DOMAIN files_at_start :
                     /\ p.parent = ScannedFolder
                     /\ files_at_start[p].kind = "file"
                     /\ ~StartsWith(p.name, << "." >>)
                     /\ ~MatchesPattern(p.name) }
          /\ \A p \in (DOMAIN files_at_start) \ scanned :
                p \in DOMAIN files /\ files[p] = files_at_start[p]

\* C25, amended: the scan returns, each once, exactly the entries directly
\* inside the folder that are not directories (regular files, named pipes),
\* whose metadata can be read, that are not hidden (name starting with a dot,
\* or the Windows hidden attribute) and whose name matches no system-file
\* pattern; directories and files in subdirectories are not returned, and
\* what the scan left out is where it was, unchanged, throughout the run.
C25_ScanEntries ==
    pc # "scan"
    => LET MatchesPattern(name) ==
               \E i \in DOMAIN config.system_file_patterns.items :
                   \/ EndsWith(name, config.system_file_patterns.items[i])
                   \/ name = config.system_file_patterns.items[i]
           scanned == { file_list[i].path : i \in DOMAIN file_list }
       IN /\ scanned
               = { p \in DOMAIN files_at_start :
                     /\ p.parent = ScannedFolder
                     /\ files_at_start[p].kind \notin { "dir", "dangling" }
                     /\ ~StartsWith(p.name, << "." >>)
                     /\ ~files_at_start[p].hidden_attribute
                     /\ ~MatchesPattern(p.name) }
          /\ IsInjective(file_list)
          /\ \A i \in DOMAIN file_list :
                /\ file_list[i].name = file_list[i].path.name
                /\ file_list[i].path.parent = ScannedFolder
          /\ \A p \in (DOMAIN files_at_start) \ scanned :
                p \in DOMAIN files /\ files[p] = files_at_start[p]

\* a folder holding every entry of the pool was scanned: the list has
\* report.pdf, UP.TMP and the pipe, and at the end of the run report.pdf is in
\* Documents while the six entries left out are where they were
C25_Witness ==
    /\ pc = "done"
    /\ Cardinality(DOMAIN files_at_start) = 9
    /\ Len(file_list) = 3
    /\ FilePath(DocumentsDir, JoinName(ReportStem, PdfExt)) \in DOMAIN files
    /\ FilePath(ScannedFolder, JoinName(ReportStem, PdfExt)) \notin DOMAIN files
    /\ \A p \in (DOMAIN files_at_start) \ { file_list[i].path : i \in DOMAIN file_list } :
          p \in DOMAIN files /\ files[p] = files_at_start[p]
    /\ Cardinality((DOMAIN files_at_start) \ DOMAIN files) = 3

\* C26: load_from_file returns the configuration only when it validates and
\* raises ValueError otherwise, with no file processed: a threshold outside
\* [0,1], an empty category table, an empty organized or logs folder name,
\* system-file patterns that are not a list, a strategy other than rename,
\* skip and overwrite, and an empty prompt template with heuristics enabled
\* are each rejected.
C26_LoadValidates ==
    LET Loaded == ConfigOf(config_data)
        rejected ==
          \/ Loaded.ambiguity_threshold < 0 \/ Loaded.ambiguity_threshold > 100
          \/ Len(Loaded.categories) = 0
          \/ Loaded.organized_folder = "" \/ Loaded.logs_folder = ""
          \/ ~Loaded.system_file_patterns.list
          \/ Loaded.duplicate_handling_strategy \notin { "rename", "skip", "overwrite" }
          \/ Loaded.ai_classifier_enabled /\ Loaded.ai_prompt_template = ""
    IN /\ pc = "loaded" => config = Loaded /\ ~rejected
       /\ pc = "ValueError"
            => /\ rejected
               /\ config = ConfigOf(NoConfigData)
               /\ operations = << >> /\ files_processed = 0 /\ files = files_at_start

\* a file that is in order but for the strategy replace was rejected
C26_Witness ==
    /\ pc = "ValueError"
    /\ config_data.strategy = Present("replace")
    /\ validate([ConfigOf(config_data) EXCEPT !.duplicate_handling_strategy = "rename"])
          = {}

\* C27: when organize returns a failed operation the file has not been
\* relocated: a source that existed is still at its path and no file has
\* appeared that was not there before the call, also when it is the step
\* restoring the timestamp that failed.
C27_FailedNotRelocated ==
    [][(pc = "organize" /\ pc' = "record" /\ ~operation'.success)
        => /\ operation'.source_path \in DOMAIN files
                => operation'.source_path \in DOMAIN files'
           /\ DOMAIN files' \subseteq DOMAIN files]_vars

\* C28: duplicate resolution terminates under every configuration validate
\* accepts: organize never stays in handle_duplicate for ever.
C28_DuplicateResolutionTerminates == pc # "hung"

\* C29: the destination paths of the successful operations are pairwise
\* distinct, within the run and against the files earlier runs on the same
\* output root have left there.
C29_DistinctDestinations ==
    \A i \in DOMAIN operations :
        operations[i].success
        => /\ operations[i].destination_path \notin DOMAIN files_at_start
           /\ \A j \in DOMAIN operations :
                 (j # i /\ operations[j].success)
                 => operations[j].destination_path # operations[i].destination_path

\* with Documents/report.pdf and Documents/report_1.pdf left by earlier runs,
\* report.pdf and report_1.pdf were both moved, to two new names
C29_Witness ==
    /\ pc = "done"
    /\ Earlier(ReportStem) \in DOMAIN files_at_start
    /\ Earlier(ReportStem \o <<"_", "1">>) \in DOMAIN files_at_start
    /\ Len(operations) = 2
    /\ operations[1].success /\ operations[2].success
    /\ operations[1].destination_path.name # operations[1].source_path.name
    /\ operations[2].destination_path.name # operations[2].source_path.name
    /\ operations[1].destination_path # operations[2].destination_path

\* C30: the configured strategy has no effect on organize.  Under rename, skip
\* and overwrite alike a file whose destination exists is moved to a suffixed
\* path, the existing file is left as it was, and the operation and the file
\* system that result are those every other strategy gives.
C30_StrategyHasNoEffect ==
    [][(pc = "organize" /\ pc' = "record")
        => /\ LET plain == FilePath(create_category_folder(config, classification.category),
                                    file_list[files_processed].name)
              IN (operation'.success /\ plain \in DOMAIN files)
                 => /\ operation'.destination_path # plain
                    /\ operation'.destination_path \notin DOMAIN files
                    /\ files'[plain] = files[plain]
                    /\ operation'.source_path \notin DOMAIN files'
           /\ \A st \in Strategies :
                 \E fault \in Faults, preserved \in BOOLEAN :
                     LET r == organize(files,
                                       [config EXCEPT !.duplicate_handling_strategy = st],
                                       file_list[files_processed], classification,
                                       fault, preserved)
                     IN r.operation = operation' /\ r.files = files']_vars

\* under the strategy overwrite report.pdf met Documents/report.pdf and went to
\* Documents/report_1.pdf
C30_Witness ==
    /\ pc = "record"
    /\ config.duplicate_handling_strategy = "overwrite"
    /\ operation.success
    /\ Earlier(ReportStem) \in DOMAIN files_at_start
    /\ files[Earlier(ReportStem)] = files_at_start[Earlier(ReportStem)]
    /\ operation.source_path.name = Report_pdf
    /\ operation.destination_path.name = Report_1_pdf

====
